---- MODULE Spec2Model ----
\* Tab Hibernate service worker (src/service_worker.js), the stub page
\* (src/unnamed/part_002) and the history import (src/history.js).
\*
\* Every async function is cut at its awaits.  A host call (tabs, storage,
\* bookmarks, alarms) takes effect, and its result is captured, when it is
\* issued; the step that follows is the continuation after the await, which
\* runs up to the next host call.  Event listeners contain no await and are
\* one step each.  Titles are left out: no branch of the code reads them.
EXTENDS Integers, Sequences, FiniteSets, TLC

(***************************** bounds **************************************)
\* tab ids handed out by the browser in one session
MaxTabs == 3
\* minutes of wall-clock time that are explored
MaxMinutes == 1
\* largest inactivity timeout (minutes) the user configures
MaxTimeout == 1
\* Date.now() when the exploration starts: one minute before midnight UTC
StartTime == 86340000
\* the history cap of 2000 entries, scaled down
CLOSED_SAVED_MAX == 3
\* no run starts once the daily count has reached this number
MaxCount == 2
MaxInFlight == 2
\* bookmark copies of one URL in one folder are counted up to this number
BookmarkCap == 2

(************************* program constants *******************************)
ALARM_CHECK_PERIOD_MINUTES == 1
INACTIVITY_MINUTES == 5
PERSIST_THROTTLE_MS == 4000
PLACEHOLDER_URL_PARAM_MAX == 1800
REPORT_THROTTLE_MS == 2000
MinuteMs == 60000
DayMs == 86400000

TabIds == 1..MaxTabs

\* the instants at which something happens: the start, 2 s and 4 s after it,
\* and every full minute after it
Instants ==
  { StartTime + o : o \in {0, REPORT_THROTTLE_MS, PERSIST_THROTTLE_MS} }
    \cup { StartTime + m * MinuteMs : m \in 1..MaxMinutes }

\* new Date().toISOString().slice(0, 10): the UTC calendar day of a timestamp
DateOf(t) == t \div DayMs

(******************************* URLs **************************************)
\* A URL is its parsed form: scheme, host, path, the query parameters tabId
\* (0: absent) and u (0: absent, else an index into PageUrls), and whether
\* encodeURIComponent(url) is longer than PLACEHOLDER_URL_PARAM_MAX.
CurExt == "cur"
OldExt == "old"

Url(s, h, p, t, f, l) ==
  [scheme |-> s, host |-> h, path |-> p, tabId |-> t, u |-> f, long |-> l]

WebA == Url("https", "a", "/", 0, 0, FALSE)
WebB == Url("https", "b", "/", 0, 0, FALSE)
WebLong == Url("https", "c", "/", 0, 0, TRUE)
FileUrl == Url("file", "", "/doc", 0, 0, FALSE)
FtpUrl == Url("ftp", "d", "/", 0, 0, FALSE)
ChromeUrl == Url("chrome", "settings", "/", 0, 0, FALSE)
OtherExtUrl == Url("chrome-extension", "other", "/page.html", 0, 0, FALSE)
AboutBlank == Url("about", "", "blank", 0, 0, FALSE)
EmptyUrl == Url("", "", "", 0, 0, FALSE)
\* an ordinary web page whose path and query look like a stub address
LookalikeUrl == Url("https", "e", "/suspended.html", 1, 1, FALSE)

PageUrls ==
  << WebA, WebB, WebLong, FileUrl, FtpUrl, ChromeUrl, OtherExtUrl, AboutBlank,
     EmptyUrl, LookalikeUrl >>

PageIndex(url) == CHOOSE i \in 1..Len(PageUrls) : PageUrls[i] = url

\* chrome.runtime.getURL('suspended.html') + '?' + params, with params.tabId
\* and, when the encoded URL is short enough, params.u
StubUrl(ext, tabId, url) ==
  Url("chrome-extension", ext, "/suspended.html", tabId,
      IF url # EmptyUrl /\ ~url.long THEN PageIndex(url) ELSE 0, FALSE)

isSuspendedPlaceholderUrl(url) ==
  url # EmptyUrl /\ url.scheme = "chrome-extension" /\ url.host = CurExt
    /\ url.path = "/suspended.html"

isPlaceholderTabUrl(url) ==
  url # EmptyUrl /\ url.path = "/suspended.html" /\ url.tabId # 0

isTabEligibleForSuspend(tab, allowActive) ==
  /\ ~(tab.active /\ ~allowActive)
  /\ ~tab.pinned
  /\ ~tab.audible
  /\ ~tab.incognito
  /\ tab.url.scheme \notin {"chrome", "chrome-extension"}
  /\ ~(isSuspendedPlaceholderUrl(tab.url) \/ isPlaceholderTabUrl(tab.url))

hasRestorableUrl(url) == url # EmptyUrl /\ url.scheme # "about"

\* the stub page's own test
isRestorableUrl(url) == url.scheme \in {"http", "https", "file"}

(************************** partial maps ***********************************)
Put(m, k, v) == [x \in DOMAIN m \cup {k} |-> IF x = k THEN v ELSE m[x]]
Del(m, k) == [x \in DOMAIN m \ {k} |-> m[x]]
Keep(m, S) == [x \in DOMAIN m \cap S |-> m[x]]
EmptyMap == [x \in {} |-> 0]

(****************************** state **************************************)
VARIABLES
  now,                 \* Date.now()
  tabs,                \* the browser's tabs, by id
  sw,                  \* the service worker process: "up" or "down"
  lastActivityByTab,   \* in-memory map tabId -> timestamp
  lastPersistTime,     \* time of the last write by persistLastActivity
  alarm,               \* the recurring alarm is registered
  storedActivity,      \* storage key lastActivityByTab
  settings,            \* storage key settings
  suspendedToday,      \* storage keys suspendedToday, suspendedTodayDate
  suspendedRec,        \* storage keys suspended_<tabId>
  backups,             \* storage keys backup_<date>
  closedAndSaved,      \* storage key closedAndSaved
  lastAlarmRun,        \* storage key lastAlarmRun
  bookmarks,           \* the bookmark tree
  task,                \* the running async functions of the service worker
  initTask,            \* the running initOnStartup
  stubPage,            \* the script of the stub page shown in a tab
  importTask,          \* the running importData of the history page
  lastSignal,          \* history: time of the last activity signal per tab
  memAtKill,           \* history: in-memory timestamps lost by a teardown
  survived,            \* history: the records in storage at the last teardown
  lastWrite,           \* history: time of the last write issued by persistLastActivity
  origUrl              \* history: the URL each tab showed when it was put on the stub page

vars ==
  << now, tabs, sw, lastActivityByTab, lastPersistTime, alarm, storedActivity,
     settings, suspendedToday, suspendedRec, backups, closedAndSaved,
     lastAlarmRun, bookmarks, task, initTask, stubPage, importTask, lastSignal,
     memAtKill, survived, lastWrite, origUrl >>

pageVars == << stubPage, importTask, origUrl >>

storeVars ==
  << storedActivity, settings, suspendedToday, suspendedRec, backups,
     closedAndSaved, lastAlarmRun, bookmarks >>

NoTab ==
  [state |-> "new", url |-> EmptyUrl, active |-> FALSE, pinned |-> FALSE,
   audible |-> FALSE, incognito |-> FALSE, discarded |-> FALSE]

ClosedTab == [NoTab EXCEPT !.state = "closed"]

NewTab(url, incog) ==
  [NoTab EXCEPT !.state = "open", !.url = url, !.incognito = incog]

OpenIds == { id \in TabIds : tabs[id].state = "open" }

\* chrome.tabs.query({}): the open tabs as they are when the call is issued
QueryTabs == [id \in OpenIds |-> tabs[id]]

Modes == {"discard", "placeholder"}

Dates == { DateOf(t) : t \in Instants }

IdleTask ==
  [pc |-> "idle", snap |-> EmptyMap, i |-> 0, mode |-> "discard", timeout |-> 0,
   cur |-> 0, res |-> FALSE, cntN |-> 0, cntDate |-> 0, today |-> 0,
   toBackup |-> <<>>, suspended |-> 0, raw |-> EmptyMap, ids |-> {},
   bucket |-> <<>>, tree |-> [roots |-> 0, dated |-> 0], toSave |-> <<>>,
   idsToClose |-> <<>>, tid |-> 0, itemUrl |-> EmptyUrl, lastRun |-> 0]

TaskNames == {"fire", "all", "cur", "backup", "close", "restore", "status"}

\* the stub page's script: not loaded, or loaded with the URL it offers
NoPage == [pc |-> "none", url |-> EmptyUrl]

IdleImport == [pc |-> "idle", file |-> 0, closed |-> <<>>, buckets |-> <<>>]

IdleInit == [pc |-> "idle", raw |-> EmptyMap, snap |-> EmptyMap]

NoBookmarks ==
  [roots |-> 0, folders |-> [d \in Dates |-> 0],
   marks |-> [d \in Dates |-> [i \in 1..Len(PageUrls) |-> 0]]]

\* The state after installation and the first initOnStartup, with the user's
\* settings saved: the tabs 1..n are open, each on one of the pages urls, tab 1
\* is active, the map holds their timestamps, idle milliseconds old, in memory
\* and in storage, the alarm is registered.
InitWith(urls, n, idle) ==
  /\ now = StartTime
  /\ \E f \in [1..n -> urls] :
       tabs = [id \in TabIds |->
                 IF id = 1 THEN [NewTab(f[1], FALSE) EXCEPT !.active = TRUE]
                 ELSE IF id <= n THEN NewTab(f[id], FALSE) ELSE NoTab]
  /\ sw = "up"
  /\ lastActivityByTab = [id \in 1..n |-> StartTime - idle]
  /\ lastPersistTime = StartTime - idle
  /\ alarm = TRUE
  /\ storedActivity = [id \in 1..n |-> StartTime - idle]
  /\ \E m \in Modes, t \in 1..MaxTimeout :
       settings = [enabled |-> TRUE, timeoutMinutes |-> t, mode |-> m]
  /\ suspendedToday = [count |-> 0, date |-> DateOf(StartTime)]
  /\ suspendedRec = EmptyMap
  /\ backups = [d \in Dates |-> <<>>]
  /\ closedAndSaved = <<>>
  /\ lastAlarmRun = 0
  /\ bookmarks = NoBookmarks
  /\ task = [k \in TaskNames |-> IdleTask]
  /\ initTask = IdleInit
  /\ stubPage = [id \in TabIds |-> NoPage]
  /\ importTask = IdleImport
  /\ lastSignal = [id \in 1..n |-> StartTime - idle]
  /\ memAtKill = EmptyMap
  /\ survived = {}
  /\ lastWrite = StartTime - idle
  /\ origUrl = EmptyMap

(************************ activity tracking ********************************)
\* a persistLastActivity without the throttle
persistAlways(mem) ==
  /\ lastPersistTime' = now
  /\ storedActivity' = mem
  /\ lastWrite' = now

\* persistLastActivity, called with the map as the caller has just left it
persistLastActivity(mem) ==
  IF now - lastPersistTime < PERSIST_THROTTLE_MS
    THEN UNCHANGED << lastPersistTime, storedActivity, lastWrite >>
    ELSE /\ lastPersistTime' = now
         /\ storedActivity' = mem
         /\ lastWrite' = now

\* lastActivityByTab.set(tabId, Date.now()); persistLastActivity()
markTabActive(tabId) ==
  /\ lastActivityByTab' = Put(lastActivityByTab, tabId, now)
  /\ persistLastActivity(Put(lastActivityByTab, tabId, now))
  /\ lastSignal' = Put(lastSignal, tabId, now)

\* Stored values that are no timestamps, written as numbers below zero: a
\* value that is not of type number (a string, null), and NaN.  A key that
\* Number() turns into NaN is written as the id -1, and a stored value that
\* is no object as the map with the single key -2.
Text == -1
NotANumber == -2
BadKey == -1
NotAnObject == [x \in {-2} |-> 0]

\* typeof v === 'number' && !Number.isNaN(v) && v > 0
ValidTs(v) == v # Text /\ v # NotANumber /\ v > 0

\* a load that takes the stored values as they are
LoadAsStored(raw, t) == [id \in DOMAIN raw \ {BadKey} |-> raw[id]]

\* the map getStoredState builds from the stored object read at time t
LoadActivity(raw, t) ==
  [id \in DOMAIN raw \ {BadKey} |-> IF ValidTs(raw[id]) THEN raw[id] ELSE t]

\* getStoredState: the map after the load, from the map mem before it; a
\* stored value that is no object leaves the map as it is
getStoredState(mem, raw, t) ==
  IF raw # NotAnObject THEN LoadActivity(raw, t) ELSE mem

isTabInactiveStrict(mem, tabId, timeoutMinutes) ==
  /\ tabId \in DOMAIN mem
  /\ now - mem[tabId] > timeoutMinutes * 60 * 1000

\* an inactivity test that takes a tab without an entry for inactive
isTabInactiveUnknown(mem, tabId, timeoutMinutes) ==
  \/ tabId \notin DOMAIN mem
  \/ now - mem[tabId] >= timeoutMinutes * 60 * 1000

isTabInactive(mem, tabId, timeoutMinutes) ==
  /\ tabId \in DOMAIN mem
  /\ now - mem[tabId] >= timeoutMinutes * 60 * 1000

(****************************** events *************************************)
Tick ==
  /\ \E t \in Instants : t > now /\ now' = t
  /\ UNCHANGED << tabs, sw, lastActivityByTab, lastPersistTime, alarm, storeVars,
                  task, initTask, lastSignal, memAtKill, survived, lastWrite, pageVars >>

restVars ==
  << sw, alarm, settings, suspendedToday, backups, closedAndSaved, lastAlarmRun,
     bookmarks, task, initTask, memAtKill, survived, importTask >>

\* chrome.tabs.onActivated
Activate(id) ==
  /\ sw = "up"
  /\ tabs[id].state = "open" /\ ~tabs[id].active
  /\ tabs' = [x \in TabIds |->
               IF x = id THEN [tabs[x] EXCEPT !.active = TRUE, !.discarded = FALSE]
               ELSE IF tabs[x].state = "open" THEN [tabs[x] EXCEPT !.active = FALSE]
               ELSE tabs[x]]
  /\ markTabActive(id)
  /\ UNCHANGED << now, suspendedRec, restVars, stubPage, origUrl >>

\* chrome.tabs.onUpdated with changeInfo.pinned
TogglePinned(id) ==
  /\ sw = "up"
  /\ tabs[id].state = "open"
  /\ tabs' = [tabs EXCEPT ![id].pinned = ~tabs[id].pinned]
  /\ markTabActive(id)
  /\ UNCHANGED << now, suspendedRec, restVars, stubPage, origUrl >>

\* chrome.tabs.onUpdated with changeInfo.audible
ToggleAudible(id) ==
  /\ sw = "up"
  /\ tabs[id].state = "open"
  /\ tabs[id].audible \/ (~tabs[id].discarded /\ tabs[id].url.scheme \in {"http", "https", "file"})
  /\ tabs' = [tabs EXCEPT ![id].audible = ~tabs[id].audible]
  /\ markTabActive(id)
  /\ UNCHANGED << now, suspendedRec, restVars, stubPage, origUrl >>

\* the content script's message {type: 'activity'}
ActivityPing(id) ==
  /\ sw = "up"
  /\ tabs[id].state = "open" /\ ~tabs[id].discarded
  /\ tabs[id].url.scheme \in {"http", "https"}
  /\ markTabActive(id)
  /\ UNCHANGED << now, tabs, suspendedRec, restVars, stubPage, origUrl >>

\* chrome.tabs.onCreated: the browser opens a tab in the background
CreateTab(id, url, incog) ==
  /\ sw = "up"
  /\ tabs[id].state = "new"
  /\ \A x \in TabIds : x < id => tabs[x].state # "new"
  /\ tabs' = [tabs EXCEPT ![id] = NewTab(url, incog)]
  /\ markTabActive(id)
  /\ UNCHANGED << now, suspendedRec, restVars, stubPage, origUrl >>

\* chrome.tabs.onRemoved
CloseTab(id) ==
  /\ sw = "up"
  /\ tabs[id].state = "open"
  /\ tabs' = [tabs EXCEPT ![id] = ClosedTab]
  /\ lastActivityByTab' = Del(lastActivityByTab, id)
  /\ persistLastActivity(Del(lastActivityByTab, id))
  /\ suspendedRec' = Del(suspendedRec, id)
  /\ stubPage' = [stubPage EXCEPT ![id] = NoPage]
  /\ origUrl' = Del(origUrl, id)
  /\ UNCHANGED << now, lastSignal, restVars >>

(********************** teardown and startup *******************************)
\* the browser terminates the service worker: memory and running functions go
Teardown ==
  /\ sw = "up"
  /\ sw' = "down"
  /\ memAtKill' = [id \in DOMAIN memAtKill \cup DOMAIN lastActivityByTab |->
                     IF id \in DOMAIN lastActivityByTab
                       THEN lastActivityByTab[id] ELSE memAtKill[id]]
  /\ lastActivityByTab' = EmptyMap
  /\ lastPersistTime' = 0
  /\ task' = [k \in TaskNames |-> IdleTask]
  /\ initTask' = IdleInit
  /\ survived' = { id \in DOMAIN suspendedRec : tabs[id].state = "open" }
  /\ UNCHANGED << now, tabs, alarm, storeVars, lastSignal, lastWrite, pageVars >>

\* an event starts the worker: the script runs initOnStartup() up to its first
\* await, chrome.alarms.create in ensureAlarm
Wake ==
  /\ sw = "down"
  /\ sw' = "up"
  /\ alarm' = TRUE
  /\ initTask' = [IdleInit EXCEPT !.pc = "ensure"]
  /\ UNCHANGED << now, tabs, lastActivityByTab, lastPersistTime, storeVars, task,
                  lastSignal, memAtKill, survived, lastWrite, pageVars >>

\* after ensureAlarm: getStoredState issues chrome.storage.local.get
InitEnsured ==
  /\ initTask.pc = "ensure"
  /\ initTask' = [initTask EXCEPT !.pc = "load", !.raw = storedActivity]
  /\ UNCHANGED << now, tabs, sw, lastActivityByTab, lastPersistTime, alarm,
                  storeVars, task, lastSignal, memAtKill, survived, lastWrite, pageVars >>

\* getStoredState replaces the map, then chrome.tabs.query is issued
InitLoaded ==
  /\ initTask.pc = "load"
  /\ lastActivityByTab' = getStoredState(lastActivityByTab, initTask.raw, now)
  /\ initTask' = [initTask EXCEPT !.pc = "query", !.raw = EmptyMap, !.snap = QueryTabs]
  /\ UNCHANGED << now, tabs, sw, lastPersistTime, alarm, storeVars, task,
                  lastSignal, memAtKill, survived, lastWrite, pageVars >>

\* the tabs initOnStartup stamps with the current time
InitStamped(snap) ==
  { id \in DOMAIN snap :
      snap[id].url # EmptyUrl /\ snap[id].url.scheme \notin {"chrome", "chrome-extension"} }

StampAll(mem, ids, t) ==
  [id \in DOMAIN mem \cup ids |-> IF id \in ids THEN t ELSE mem[id]]

\* initOnStartup stamps the tabs and calls persistLastActivity
InitQueried ==
  /\ initTask.pc = "query"
  /\ lastActivityByTab' = StampAll(lastActivityByTab, InitStamped(initTask.snap), now)
  /\ persistLastActivity(StampAll(lastActivityByTab, InitStamped(initTask.snap), now))
  /\ initTask' = IdleInit
  /\ UNCHANGED << now, tabs, sw, alarm, settings, suspendedToday, suspendedRec,
                  backups, closedAndSaved, lastAlarmRun, bookmarks, task, lastSignal,
                  memAtKill, survived, pageVars >>


(************************** shared helpers *********************************)
SetTask(k, t) == task' = [task EXCEPT ![k] = t]

Min(S) == CHOOSE x \in S : \A y \in S : x <= y

RECURSIVE Unique(_)
\* filter with a seen-set: the first occurrence of each URL is kept
Unique(q) ==
  IF q = <<>> THEN <<>>
  ELSE LET r == Unique(SubSeq(q, 1, Len(q) - 1))
           x == q[Len(q)]
       IN IF \E j \in 1..Len(r) : r[j] = x THEN r ELSE Append(r, x)

BucketUrls(list) == { list[j].url : j \in 1..Len(list) }

PushAll(list, q, t) == list \o [j \in 1..Len(q) |-> [url |-> q[j], ts |-> t]]

RECURSIVE MergeBucket(_, _, _)
\* push {url, ts} for every URL of q that the list does not hold yet
MergeBucket(list, q, t) ==
  IF q = <<>> THEN list
  ELSE LET l == IF q[1] \in BucketUrls(list) THEN list
                ELSE Append(list, [url |-> q[1], ts |-> t])
       IN MergeBucket(l, Tail(q), t)

\* chrome.bookmarks.getTree as getOrCreateBackupFolder searches it
ReadTree(d) == [roots |-> bookmarks.roots, dated |-> bookmarks.folders[d]]

Bump(n) == IF n < BookmarkCap THEN n + 1 ELSE n

\* getSettings, on the stored settings as they are when it is issued
ReadSettings(t) ==
  [t EXCEPT !.mode = settings.mode, !.timeout = settings.timeoutMinutes,
            !.res = settings.enabled]

(*********************** the loop over the tabs ****************************)
\* the conditions under which the loop of task k goes on to suspend a tab
Passes(k, t, id, mem) ==
  /\ isTabEligibleForSuspend(t.snap[id], FALSE)
  /\ k = "fire" => isTabInactive(mem, id, t.timeout)
  /\ t.mode = "placeholder" => hasRestorableUrl(t.snap[id].url)

\* The loop runs from the tab after t.i up to its next await: chrome.tabs.get
\* for the next tab that passes; or, past the last tab, chrome.bookmarks.getTree
\* of the backup pass; or the end of the function.
EvalNext(k, t, mem) ==
  LET cand == { id \in DOMAIN t.snap : id > t.i /\ Passes(k, t, id, mem) }
  IN IF cand # {}
       THEN [t EXCEPT !.pc = "get", !.cur = Min(cand), !.i = Min(cand),
                      !.res = (tabs[Min(cand)].state = "open")]
     ELSE IF t.toBackup # <<>>
       THEN [t EXCEPT !.pc = "b_tree", !.cur = 0, !.today = DateOf(now),
                      !.toBackup = Unique(t.toBackup),
                      !.tree = ReadTree(DateOf(now))]
     ELSE IdleTask

\* a caller that takes every return for a success
ReturnedAlways(k, t, ok, mem) ==
  IF k = "cur" THEN IdleTask
  ELSE EvalNext(k, [t EXCEPT !.toBackup = Append(t.toBackup, t.snap[t.cur].url),
                             !.suspended = t.suspended + 1],
                mem)

\* suspendDiscard or suspendPlaceholder has returned ok for tab t.cur
Returned(k, t, ok, mem) ==
  IF k = "cur" THEN IdleTask
  ELSE EvalNext(k,
         IF ok THEN [t EXCEPT !.toBackup = Append(t.toBackup, t.snap[t.cur].url),
                              !.suspended = t.suspended + 1]
               ELSE t,
         mem)

Suspenders == {"fire", "all", "cur"}

RecordOfStub(t) == [url |-> StubUrl(CurExt, t.cur, t.snap[t.cur].url), tabId |-> t.cur]

\* the record suspendPlaceholder stores: the URL of the tab snapshot
RecordOf(t) == [url |-> t.snap[t.cur].url, tabId |-> t.cur]

\* after chrome.tabs.get: the tab is gone (return false), or the unload
\* (discard; the browser unloads no tab that is active or unloaded already)
\* or the write of suspended_<id> (placeholder) is issued
SuspendGot(k) ==
  /\ k \in Suspenders /\ task[k].pc = "get"
  /\ LET t == task[k] IN
       IF ~t.res
         THEN /\ SetTask(k, Returned(k, t, FALSE, lastActivityByTab))
              /\ UNCHANGED << tabs, suspendedRec >>
       ELSE IF t.mode = "discard"
         THEN /\ \E ok \in BOOLEAN :
                   /\ ok => /\ tabs[t.cur].state = "open"
                            /\ ~tabs[t.cur].discarded /\ ~tabs[t.cur].active
                   /\ tabs' = IF ok THEN [tabs EXCEPT ![t.cur].discarded = TRUE] ELSE tabs
                   /\ SetTask(k, [t EXCEPT !.pc = "discard", !.res = ok])
              /\ UNCHANGED suspendedRec
       ELSE /\ suspendedRec' = Put(suspendedRec, t.cur, RecordOf(t))
            /\ SetTask(k, [t EXCEPT !.pc = "p_write"])
            /\ UNCHANGED tabs
  /\ UNCHANGED << now, sw, lastActivityByTab, lastPersistTime, alarm, storedActivity,
                  settings, suspendedToday, backups, closedAndSaved, lastAlarmRun,
                  bookmarks, initTask, lastSignal, memAtKill, survived, lastWrite, pageVars >>

\* incrementSuspendedToday up to its chrome.storage.local.get
IncIssued(t) ==
  [t EXCEPT !.pc = "inc_get", !.today = DateOf(now),
            !.cntN = suspendedToday.count, !.cntDate = suspendedToday.date]

\* after chrome.tabs.discard
SuspendDiscarded(k) ==
  /\ k \in Suspenders /\ task[k].pc = "discard"
  /\ LET t == task[k] IN
       IF t.res THEN SetTask(k, IncIssued(t))
       ELSE SetTask(k, Returned(k, t, FALSE, lastActivityByTab))
  /\ UNCHANGED << now, tabs, sw, lastActivityByTab, lastPersistTime, alarm, storeVars,
                  initTask, lastSignal, memAtKill, survived, lastWrite, pageVars >>

\* after the write of suspended_<id>: chrome.tabs.update to the stub address
SuspendWritten(k) ==
  /\ k \in Suspenders /\ task[k].pc = "p_write"
  /\ LET t == task[k] IN
       \E ok \in BOOLEAN :
         /\ ok => tabs[t.cur].state = "open"
         /\ tabs' = IF ok THEN [tabs EXCEPT ![t.cur].url =
                                  StubUrl(CurExt, t.cur, t.snap[t.cur].url),
                                  ![t.cur].discarded = FALSE]
                    ELSE tabs
         /\ stubPage' = IF ok THEN [stubPage EXCEPT ![t.cur] = NoPage] ELSE stubPage
         /\ origUrl' = IF ok THEN Put(origUrl, t.cur, tabs[t.cur].url) ELSE origUrl
         /\ SetTask(k, [t EXCEPT !.pc = "p_nav", !.res = ok])
  /\ UNCHANGED << now, sw, lastActivityByTab, lastPersistTime, alarm, storeVars,
                  initTask, lastSignal, memAtKill, survived, lastWrite, importTask >>

\* after chrome.tabs.update: count the suspension, or remove the record
SuspendNavigated(k) ==
  /\ k \in Suspenders /\ task[k].pc = "p_nav"
  /\ LET t == task[k] IN
       IF t.res
         THEN /\ SetTask(k, IncIssued(t))
              /\ UNCHANGED suspendedRec
         ELSE /\ suspendedRec' = Del(suspendedRec, t.cur)
              /\ SetTask(k, [t EXCEPT !.pc = "p_rollback"])
  /\ UNCHANGED << now, tabs, sw, lastActivityByTab, lastPersistTime, alarm,
                  storedActivity, settings, suspendedToday, backups, closedAndSaved,
                  lastAlarmRun, bookmarks, initTask, lastSignal, memAtKill, survived,
                  lastWrite, pageVars >>

\* after the removal of suspended_<id>: return false
SuspendRolledBack(k) ==
  /\ k \in Suspenders /\ task[k].pc = "p_rollback"
  /\ SetTask(k, Returned(k, task[k], FALSE, lastActivityByTab))
  /\ UNCHANGED << now, tabs, sw, lastActivityByTab, lastPersistTime, alarm, storeVars,
                  initTask, lastSignal, memAtKill, survived, lastWrite, pageVars >>

\* incrementSuspendedToday after its read: write the new count
IncRead(k) ==
  /\ k \in Suspenders /\ task[k].pc = "inc_get"
  /\ LET t == task[k] IN
       /\ suspendedToday' =
            [count |-> IF t.cntDate = t.today THEN t.cntN + 1 ELSE 1, date |-> t.today]
       /\ SetTask(k, [t EXCEPT !.pc = "inc_set"])
  /\ UNCHANGED << now, tabs, sw, lastActivityByTab, lastPersistTime, alarm,
                  storedActivity, settings, suspendedRec, backups, closedAndSaved,
                  lastAlarmRun, bookmarks, initTask, lastSignal, memAtKill, survived,
                  lastWrite, pageVars >>

\* incrementSuspendedToday has written: the suspend function returns true
IncWritten(k) ==
  /\ k \in Suspenders /\ task[k].pc = "inc_set"
  /\ SetTask(k, Returned(k, task[k], TRUE, lastActivityByTab))
  /\ UNCHANGED << now, tabs, sw, lastActivityByTab, lastPersistTime, alarm, storeVars,
                  initTask, lastSignal, memAtKill, survived, lastWrite, pageVars >>


(**************************** backup pass **********************************)
BackupTasks == {"fire", "all", "backup"}

\* the bookmarks created for the URLs of q in the folder of date d
AddMarks(bm, d, q) ==
  [bm EXCEPT !.marks[d] =
     [i \in 1..Len(PageUrls) |->
        IF \E j \in 1..Len(q) : q[j] = PageUrls[i] THEN Bump(bm.marks[d][i])
        ELSE bm.marks[d][i]]]

\* getOrCreateBackupFolder after getTree: create "Tab Backup", or the date
\* folder, or (both found) go on to create the bookmarks
BackupTreeRead(k) ==
  /\ k \in BackupTasks /\ task[k].pc = "b_tree"
  /\ LET t == task[k] IN
       IF t.tree.roots = 0
         THEN /\ bookmarks' = [bookmarks EXCEPT !.roots = Bump(bookmarks.roots)]
              /\ SetTask(k, [t EXCEPT !.pc = "b_root"])
       ELSE IF t.tree.dated = 0
         THEN /\ bookmarks' = [bookmarks EXCEPT !.folders[t.today] = Bump(bookmarks.folders[t.today])]
              /\ SetTask(k, [t EXCEPT !.pc = "b_date"])
       ELSE /\ bookmarks' = AddMarks(bookmarks, t.today, t.toBackup)
            /\ SetTask(k, [t EXCEPT !.pc = "b_marks"])
  /\ UNCHANGED << now, tabs, sw, lastActivityByTab, lastPersistTime, alarm,
                  storedActivity, settings, suspendedToday, suspendedRec, backups,
                  closedAndSaved, lastAlarmRun, initTask, lastSignal, memAtKill, survived,
                  lastWrite, pageVars >>

\* after the creation of "Tab Backup": the new folder has no children, so the
\* date folder is created
BackupRootCreated(k) ==
  /\ k \in BackupTasks /\ task[k].pc = "b_root"
  /\ bookmarks' = [bookmarks EXCEPT !.folders[task[k].today] = Bump(bookmarks.folders[task[k].today])]
  /\ SetTask(k, [task[k] EXCEPT !.pc = "b_date"])
  /\ UNCHANGED << now, tabs, sw, lastActivityByTab, lastPersistTime, alarm,
                  storedActivity, settings, suspendedToday, suspendedRec, backups,
                  closedAndSaved, lastAlarmRun, initTask, lastSignal, memAtKill, survived,
                  lastWrite, pageVars >>

\* after the creation of the date folder: one bookmark per URL of the batch
BackupFolderCreated(k) ==
  /\ k \in BackupTasks /\ task[k].pc = "b_date"
  /\ bookmarks' = AddMarks(bookmarks, task[k].today, task[k].toBackup)
  /\ SetTask(k, [task[k] EXCEPT !.pc = "b_marks"])
  /\ UNCHANGED << now, tabs, sw, lastActivityByTab, lastPersistTime, alarm,
                  storedActivity, settings, suspendedToday, suspendedRec, backups,
                  closedAndSaved, lastAlarmRun, initTask, lastSignal, memAtKill, survived,
                  lastWrite, pageVars >>

\* after the bookmarks: read backup_<date>; runBackup keeps the date string
\* it computed before, the other two compute it anew
BackupMarked(k) ==
  /\ k \in BackupTasks /\ task[k].pc = "b_marks"
  /\ LET d == IF k = "backup" THEN task[k].today ELSE DateOf(now) IN
       SetTask(k, [task[k] EXCEPT !.pc = "b_get", !.today = d, !.bucket = backups[d]])
  /\ UNCHANGED << now, tabs, sw, lastActivityByTab, lastPersistTime, alarm, storeVars,
                  initTask, lastSignal, memAtKill, survived, lastWrite, pageVars >>

\* after the read: push the new URLs and write backup_<date>
BackupRead(k) ==
  /\ k \in BackupTasks /\ task[k].pc = "b_get"
  /\ backups' = [backups EXCEPT ![task[k].today] =
                   MergeBucket(task[k].bucket, task[k].toBackup, now)]
  /\ SetTask(k, [task[k] EXCEPT !.pc = "b_set"])
  /\ UNCHANGED << now, tabs, sw, lastActivityByTab, lastPersistTime, alarm,
                  storedActivity, settings, suspendedToday, suspendedRec,
                  closedAndSaved, lastAlarmRun, bookmarks, initTask, lastSignal,
                  memAtKill, survived, lastWrite, pageVars >>

\* after the write: the function returns
BackupWritten(k) ==
  /\ k \in BackupTasks /\ task[k].pc = "b_set"
  /\ SetTask(k, IdleTask)
  /\ UNCHANGED << now, tabs, sw, lastActivityByTab, lastPersistTime, alarm, storeVars,
                  initTask, lastSignal, memAtKill, survived, lastWrite, pageVars >>

(************************ onAlarmCheck, the firing *************************)
\* the alarm fires: chrome.storage.local.set({lastAlarmRun})
FireStart ==
  /\ sw = "up" /\ alarm /\ task["fire"].pc = "idle"
  /\ suspendedToday.count < MaxCount
  /\ lastAlarmRun' = now
  /\ SetTask("fire", [IdleTask EXCEPT !.pc = "f_set"])
  /\ UNCHANGED << now, tabs, sw, lastActivityByTab, lastPersistTime, alarm,
                  storedActivity, settings, suspendedToday, suspendedRec, backups,
                  closedAndSaved, bookmarks, initTask, lastSignal, memAtKill, survived,
                  lastWrite, pageVars >>

\* ensureAlarm: chrome.alarms.create
FireSetDone ==
  /\ task["fire"].pc = "f_set"
  /\ alarm' = TRUE
  /\ SetTask("fire", [task["fire"] EXCEPT !.pc = "f_alarm"])
  /\ UNCHANGED << now, tabs, sw, lastActivityByTab, lastPersistTime, storeVars,
                  initTask, lastSignal, memAtKill, survived, lastWrite, pageVars >>

\* getStoredState issues chrome.storage.local.get
FireAlarmed ==
  /\ task["fire"].pc = "f_alarm"
  /\ SetTask("fire", [task["fire"] EXCEPT !.pc = "f_load", !.raw = storedActivity])
  /\ UNCHANGED << now, tabs, sw, lastActivityByTab, lastPersistTime, alarm, storeVars,
                  initTask, lastSignal, memAtKill, survived, lastWrite, pageVars >>

\* getStoredState replaces the map; pruneStaleTabIds issues chrome.tabs.query
FireLoaded ==
  /\ task["fire"].pc = "f_load"
  /\ lastActivityByTab' = getStoredState(lastActivityByTab, task["fire"].raw, now)
  /\ SetTask("fire", [task["fire"] EXCEPT !.pc = "f_prune", !.raw = EmptyMap, !.ids = OpenIds])
  /\ memAtKill' = EmptyMap
  /\ UNCHANGED << now, tabs, sw, lastPersistTime, alarm, storeVars, initTask,
                  lastSignal, survived, lastWrite, pageVars >>

\* pruneStaleTabIds deletes the entries of tabs not in the list and, if it
\* deleted one, writes the map; else getSettings reads the settings
FirePruned ==
  /\ task["fire"].pc = "f_prune"
  /\ LET t == task["fire"]
         kept == Keep(lastActivityByTab, t.ids)
     IN /\ lastActivityByTab' = kept
        /\ IF DOMAIN lastActivityByTab \subseteq t.ids
             THEN /\ SetTask("fire", ReadSettings([t EXCEPT !.pc = "f_settings", !.ids = {}]))
                  /\ UNCHANGED storedActivity
             ELSE /\ storedActivity' = kept
                  /\ SetTask("fire", [t EXCEPT !.pc = "f_prunew", !.ids = {}])
  /\ UNCHANGED << now, tabs, sw, lastPersistTime, alarm, settings, suspendedToday,
                  suspendedRec, backups, closedAndSaved, lastAlarmRun, bookmarks,
                  initTask, lastSignal, memAtKill, survived, lastWrite, pageVars >>

FirePruneWritten ==
  /\ task["fire"].pc = "f_prunew"
  /\ SetTask("fire", ReadSettings([task["fire"] EXCEPT !.pc = "f_settings"]))
  /\ UNCHANGED << now, tabs, sw, lastActivityByTab, lastPersistTime, alarm, storeVars,
                  initTask, lastSignal, memAtKill, survived, lastWrite, pageVars >>

\* a firing that goes on to chrome.tabs.query whatever the settings say
FireSettingsAnyway ==
  /\ task["fire"].pc = "f_settings"
  /\ SetTask("fire", [task["fire"] EXCEPT !.pc = "f_query", !.snap = QueryTabs])
  /\ UNCHANGED << now, tabs, sw, lastActivityByTab, lastPersistTime, alarm, storeVars,
                  initTask, lastSignal, memAtKill, survived, lastWrite, pageVars >>

\* if (!settings.enabled) return; else chrome.tabs.query
FireSettings ==
  /\ task["fire"].pc = "f_settings"
  /\ IF task["fire"].res
       THEN SetTask("fire", [task["fire"] EXCEPT !.pc = "f_query", !.snap = QueryTabs])
       ELSE SetTask("fire", IdleTask)
  /\ UNCHANGED << now, tabs, sw, lastActivityByTab, lastPersistTime, alarm, storeVars,
                  initTask, lastSignal, memAtKill, survived, lastWrite, pageVars >>

\* the map after the tabs of the list that have no entry are given one
Seeded(mem, snap, t) ==
  [id \in DOMAIN mem \cup DOMAIN snap |-> IF id \in DOMAIN mem THEN mem[id] ELSE t]

\* seed; persistLastActivity if a tab was seeded; then the loop.  Only an
\* issued write makes the function wait before the loop.
FireQueried ==
  /\ task["fire"].pc = "f_query"
  /\ LET t == task["fire"]
         mem == Seeded(lastActivityByTab, t.snap, now)
     IN /\ lastActivityByTab' = mem
        /\ IF DOMAIN t.snap \subseteq DOMAIN lastActivityByTab
             THEN /\ UNCHANGED << lastPersistTime, storedActivity, lastWrite >>
                  /\ SetTask("fire", EvalNext("fire", t, mem))
           ELSE /\ persistLastActivity(mem)
                /\ IF now - lastPersistTime < PERSIST_THROTTLE_MS
                     THEN SetTask("fire", EvalNext("fire", t, mem))
                     ELSE SetTask("fire", [t EXCEPT !.pc = "f_seedw"])
  /\ UNCHANGED << now, tabs, sw, alarm, settings, suspendedToday, suspendedRec,
                  backups, closedAndSaved, lastAlarmRun, bookmarks, initTask,
                  lastSignal, memAtKill, survived, pageVars >>

FireSeedWritten ==
  /\ task["fire"].pc = "f_seedw"
  /\ SetTask("fire", EvalNext("fire", task["fire"], lastActivityByTab))
  /\ UNCHANGED << now, tabs, sw, lastActivityByTab, lastPersistTime, alarm, storeVars,
                  initTask, lastSignal, memAtKill, survived, lastWrite, pageVars >>


(************************* runSuspendAllNow ********************************)
\* the message suspendAllNow: getStoredState issues chrome.storage.local.get
AllStart ==
  /\ sw = "up" /\ task["all"].pc = "idle"
  /\ suspendedToday.count < MaxCount
  /\ SetTask("all", [IdleTask EXCEPT !.pc = "a_load", !.raw = storedActivity])
  /\ UNCHANGED << now, tabs, sw, lastActivityByTab, lastPersistTime, alarm, storeVars,
                  initTask, lastSignal, memAtKill, survived, lastWrite, pageVars >>

\* getStoredState replaces the map; getSettings reads the settings
AllLoaded ==
  /\ task["all"].pc = "a_load"
  /\ lastActivityByTab' = getStoredState(lastActivityByTab, task["all"].raw, now)
  /\ SetTask("all", ReadSettings([task["all"] EXCEPT !.pc = "a_settings", !.raw = EmptyMap]))
  /\ UNCHANGED << now, tabs, sw, lastPersistTime, alarm, storeVars, initTask,
                  lastSignal, memAtKill, survived, lastWrite, pageVars >>

\* chrome.tabs.query
AllSettings ==
  /\ task["all"].pc = "a_settings"
  /\ SetTask("all", [task["all"] EXCEPT !.pc = "a_query", !.snap = QueryTabs])
  /\ UNCHANGED << now, tabs, sw, lastActivityByTab, lastPersistTime, alarm, storeVars,
                  initTask, lastSignal, memAtKill, survived, lastWrite, pageVars >>

AllQueried ==
  /\ task["all"].pc = "a_query"
  /\ SetTask("all", EvalNext("all", task["all"], lastActivityByTab))
  /\ UNCHANGED << now, tabs, sw, lastActivityByTab, lastPersistTime, alarm, storeVars,
                  initTask, lastSignal, memAtKill, survived, lastWrite, pageVars >>

(********************** the message suspendCurrentTab **********************)
\* chrome.tabs.query({active: true, currentWindow: true})
CurStart ==
  /\ sw = "up" /\ task["cur"].pc = "idle"
  /\ suspendedToday.count < MaxCount
  /\ SetTask("cur", [IdleTask EXCEPT !.pc = "c_query",
                       !.snap = [id \in { x \in OpenIds : tabs[x].active } |-> tabs[id]]])
  /\ UNCHANGED << now, tabs, sw, lastActivityByTab, lastPersistTime, alarm, storeVars,
                  initTask, lastSignal, memAtKill, survived, lastWrite, pageVars >>

\* no active tab or not eligible (allowActive): reply; else getSettings
CurQueried ==
  /\ task["cur"].pc = "c_query"
  /\ LET t == task["cur"] IN
       IF t.snap = EmptyMap \/ ~isTabEligibleForSuspend(t.snap[Min(DOMAIN t.snap)], TRUE)
         THEN SetTask("cur", IdleTask)
         ELSE SetTask("cur", ReadSettings([t EXCEPT !.pc = "c_settings",
                                                    !.cur = Min(DOMAIN t.snap)]))
  /\ UNCHANGED << now, tabs, sw, lastActivityByTab, lastPersistTime, alarm, storeVars,
                  initTask, lastSignal, memAtKill, survived, lastWrite, pageVars >>

\* placeholder without a restorable URL: reply; else the suspend function
\* issues chrome.tabs.get
CurSettings ==
  /\ task["cur"].pc = "c_settings"
  /\ LET t == task["cur"] IN
       IF t.mode = "placeholder" /\ ~hasRestorableUrl(t.snap[t.cur].url)
         THEN SetTask("cur", IdleTask)
         ELSE SetTask("cur", [t EXCEPT !.pc = "get", !.res = (tabs[t.cur].state = "open")])
  /\ UNCHANGED << now, tabs, sw, lastActivityByTab, lastPersistTime, alarm, storeVars,
                  initTask, lastSignal, memAtKill, survived, lastWrite, pageVars >>

(******************************* runBackup *********************************)
RECURSIVE UrlsOf(_, _)
\* the URLs of the tabs of snap with the ids S, in the order of the list
UrlsOf(snap, S) ==
  IF S = {} THEN <<>>
  ELSE << snap[Min(S)].url >> \o UrlsOf(snap, S \ {Min(S)})

\* getEligibleTabsForBackup
BackupEligible(snap) ==
  { id \in DOMAIN snap :
      /\ snap[id].url # EmptyUrl
      /\ snap[id].url.scheme \notin {"chrome", "chrome-extension"}
      /\ ~snap[id].incognito }

\* the message backupNow: getEligibleTabsForBackup issues chrome.tabs.query
BackupStart ==
  /\ sw = "up" /\ task["backup"].pc = "idle"
  /\ SetTask("backup", [IdleTask EXCEPT !.pc = "k_query", !.snap = QueryTabs])
  /\ UNCHANGED << now, tabs, sw, lastActivityByTab, lastPersistTime, alarm, storeVars,
                  initTask, lastSignal, memAtKill, survived, lastWrite, pageVars >>

\* unique URLs; none: return; else getOrCreateBackupFolder reads the tree
BackupQueried ==
  /\ task["backup"].pc = "k_query"
  /\ LET t == task["backup"]
         unique == Unique(UrlsOf(t.snap, BackupEligible(t.snap)))
     IN IF unique = <<>> THEN SetTask("backup", IdleTask)
        ELSE SetTask("backup", [t EXCEPT !.pc = "b_tree", !.toBackup = unique,
                                         !.today = DateOf(now),
                                         !.tree = ReadTree(DateOf(now))])
  /\ UNCHANGED << now, tabs, sw, lastActivityByTab, lastPersistTime, alarm, storeVars,
                  initTask, lastSignal, memAtKill, survived, lastWrite, pageVars >>

(*************************** runCloseAndSaveAll ****************************)
RECURSIVE Reverse(_)
Reverse(q) == IF q = <<>> THEN <<>> ELSE Append(Reverse(Tail(q)), Head(q))

SliceEnd(q, n) == SubSeq(q, IF Len(q) < n THEN 1 ELSE Len(q) - n + 1, Len(q))

\* slice(0, n)
Slice(q, n) == SubSeq(q, 1, IF Len(q) < n THEN Len(q) ELSE n)

RECURSIVE IdSeq(_)
IdSeq(S) == IF S = {} THEN <<>> ELSE << Min(S) >> \o IdSeq(S \ {Min(S)})

RECURSIVE Entries(_, _)
Entries(q, t) ==
  IF q = <<>> THEN <<>> ELSE << [url |-> Head(q), ts |-> t] >> \o Entries(Tail(q), t)

\* the list runCloseAndSaveAll writes
MergeClosed(toSave, stored) == Slice(Reverse(toSave) \o stored, CLOSED_SAVED_MAX)

\* the message closeAndSaveAll: chrome.tabs.query
CloseStart ==
  /\ sw = "up" /\ task["close"].pc = "idle"
  /\ SetTask("close", [IdleTask EXCEPT !.pc = "s_query", !.snap = QueryTabs])
  /\ UNCHANGED << now, tabs, sw, lastActivityByTab, lastPersistTime, alarm, storeVars,
                  initTask, lastSignal, memAtKill, survived, lastWrite, pageVars >>

\* collect the eligible tabs; none: return; else read closedAndSaved
CloseQueried ==
  /\ task["close"].pc = "s_query"
  /\ LET t == task["close"]
         ids == { id \in DOMAIN t.snap : isTabEligibleForSuspend(t.snap[id], FALSE) }
     IN IF ids = {} THEN SetTask("close", IdleTask)
        ELSE SetTask("close", [t EXCEPT !.pc = "s_get",
                                        !.toSave = Entries(UrlsOf(t.snap, ids), now),
                                        !.idsToClose = IdSeq(ids),
                                        !.bucket = closedAndSaved])
  /\ UNCHANGED << now, tabs, sw, lastActivityByTab, lastPersistTime, alarm, storeVars,
                  initTask, lastSignal, memAtKill, survived, lastWrite, pageVars >>

\* write the merged list
CloseRead ==
  /\ task["close"].pc = "s_get"
  /\ closedAndSaved' = MergeClosed(task["close"].toSave, task["close"].bucket)
  /\ SetTask("close", [task["close"] EXCEPT !.pc = "s_set"])
  /\ UNCHANGED << now, tabs, sw, lastActivityByTab, lastPersistTime, alarm,
                  storedActivity, settings, suspendedToday, suspendedRec, backups,
                  lastAlarmRun, bookmarks, initTask, lastSignal, memAtKill, survived,
                  lastWrite, pageVars >>

\* chrome.tabs.remove for the next id: the tab closes and onRemoved runs; the
\* call fails (and is caught) when the tab is closed already
CloseNext ==
  /\ task["close"].pc \in {"s_set", "s_rm"}
  /\ LET t == task["close"] IN
       IF t.i = Len(t.idsToClose)
         THEN /\ SetTask("close", IdleTask)
              /\ UNCHANGED << tabs, lastActivityByTab, lastPersistTime, storedActivity,
                              lastWrite, suspendedRec, stubPage, origUrl >>
       ELSE LET id == t.idsToClose[t.i + 1] IN
         /\ SetTask("close", [t EXCEPT !.pc = "s_rm", !.i = t.i + 1])
         /\ IF tabs[id].state = "open"
              THEN /\ tabs' = [tabs EXCEPT ![id] = ClosedTab]
                   /\ lastActivityByTab' = Del(lastActivityByTab, id)
                   /\ persistLastActivity(Del(lastActivityByTab, id))
                   /\ suspendedRec' = Del(suspendedRec, id)
                   /\ stubPage' = [stubPage EXCEPT ![id] = NoPage]
                   /\ origUrl' = Del(origUrl, id)
              ELSE UNCHANGED << tabs, lastActivityByTab, lastPersistTime,
                                storedActivity, lastWrite, suspendedRec, stubPage,
                                origUrl >>
  /\ UNCHANGED << now, sw, alarm, settings, suspendedToday, backups, closedAndSaved,
                  lastAlarmRun, bookmarks, initTask, lastSignal, memAtKill, survived, importTask >>


(************************ runRestoreAllSuspended ***************************)
\* The loop runs from the tab after t.i to its next await: storage.get of the
\* record of the next placeholder tab, or the end of the function.
RestoreNext(t) ==
  LET cand == { id \in DOMAIN t.snap :
                  /\ id > t.i
                  /\ t.snap[id].url # EmptyUrl
                  /\ isPlaceholderTabUrl(t.snap[id].url)
                  /\ t.snap[id].url.tabId # 0 }
  IN IF cand = {} THEN IdleTask
     ELSE LET id == Min(cand)
              tid == t.snap[id].url.tabId
          IN [t EXCEPT !.pc = "r_get", !.cur = id, !.i = id, !.tid = tid,
                       !.itemUrl = IF tid \in DOMAIN suspendedRec
                                     THEN suspendedRec[tid].url ELSE EmptyUrl]

\* item.url, or else the u parameter when it is http or https
RestoreTarget(t) ==
  IF t.itemUrl # EmptyUrl THEN t.itemUrl
  ELSE LET u == t.snap[t.cur].url.u
       IN IF u # 0 /\ PageUrls[u].scheme \in {"http", "https"}
            THEN PageUrls[u] ELSE EmptyUrl

\* the message restoreAllSuspended: chrome.tabs.query
RestoreStart ==
  /\ sw = "up" /\ task["restore"].pc = "idle"
  /\ SetTask("restore", [IdleTask EXCEPT !.pc = "r_query", !.snap = QueryTabs])
  /\ UNCHANGED << now, tabs, sw, lastActivityByTab, lastPersistTime, alarm, storeVars,
                  initTask, lastSignal, memAtKill, survived, lastWrite, pageVars >>

RestoreQueried ==
  /\ task["restore"].pc = "r_query"
  /\ SetTask("restore", RestoreNext(task["restore"]))
  /\ UNCHANGED << now, tabs, sw, lastActivityByTab, lastPersistTime, alarm, storeVars,
                  initTask, lastSignal, memAtKill, survived, lastWrite, pageVars >>

\* the record is read: chrome.tabs.update(tab.id, {url: restoreUrl}), which
\* the host may reject, or the next tab
RestoreRead ==
  /\ task["restore"].pc = "r_get"
  /\ LET t == task["restore"]
         target == RestoreTarget(t)
     IN IF target = EmptyUrl
          THEN /\ SetTask("restore", RestoreNext(t))
               /\ UNCHANGED << tabs, stubPage, origUrl >>
        ELSE \E ok \in BOOLEAN :
          /\ ok => tabs[t.cur].state = "open"
          /\ tabs' = IF ok THEN [tabs EXCEPT ![t.cur].url = target,
                                             ![t.cur].discarded = FALSE]
                     ELSE tabs
          /\ stubPage' = IF ok THEN [stubPage EXCEPT ![t.cur] = NoPage] ELSE stubPage
          /\ origUrl' = IF ok THEN Del(origUrl, t.cur) ELSE origUrl
          /\ SetTask("restore", [t EXCEPT !.pc = "r_nav", !.res = ok])
  /\ UNCHANGED << now, sw, lastActivityByTab, lastPersistTime, alarm, storeVars,
                  initTask, lastSignal, memAtKill, survived, lastWrite, importTask >>

\* navigation done: chrome.storage.local.remove of the record; rejected: the
\* catch goes on to the next tab
RestoreNavigated ==
  /\ task["restore"].pc = "r_nav"
  /\ LET t == task["restore"] IN
       IF t.res
         THEN /\ suspendedRec' = Del(suspendedRec, t.tid)
              /\ SetTask("restore", [t EXCEPT !.pc = "r_rm"])
         ELSE /\ SetTask("restore", RestoreNext(t))
              /\ UNCHANGED suspendedRec
  /\ UNCHANGED << now, tabs, sw, lastActivityByTab, lastPersistTime, alarm,
                  storedActivity, settings, suspendedToday, backups, closedAndSaved,
                  lastAlarmRun, bookmarks, initTask, lastSignal, memAtKill, survived,
                  lastWrite, pageVars >>

\* restored++
RestoreRemoved ==
  /\ task["restore"].pc = "r_rm"
  /\ SetTask("restore", RestoreNext([task["restore"] EXCEPT
                                       !.suspended = task["restore"].suspended + 1]))
  /\ UNCHANGED << now, tabs, sw, lastActivityByTab, lastPersistTime, alarm, storeVars,
                  initTask, lastSignal, memAtKill, survived, lastWrite, pageVars >>

\* the reply to the message getRestoreData: the record's URL, or null
getRestoreData(tabId) ==
  IF tabId \in DOMAIN suspendedRec THEN suspendedRec[tabId].url ELSE EmptyUrl

(************************* the placeholder page ****************************)
\* the page's script runs in a tab that shows suspended.html of this
\* installation
ShowsStub(id) ==
  /\ tabs[id].state = "open" /\ ~tabs[id].discarded
  /\ tabs[id].url # EmptyUrl
  /\ tabs[id].url.scheme = "chrome-extension"
  /\ tabs[id].url.host = CurExt
  /\ tabs[id].url.path = "/suspended.html"

\* the lookup at page load: the record's URL when restorable, else the u
\* parameter when restorable, else the error state
StubLookup(url) ==
  LET tid == url.tabId
      fromRec == IF tid # 0 /\ tid \in DOMAIN suspendedRec
                   THEN suspendedRec[tid].url ELSE EmptyUrl
      fallback == IF url.u # 0 THEN PageUrls[url.u] ELSE EmptyUrl
  IN IF tid = 0 THEN EmptyUrl
     ELSE IF fromRec # EmptyUrl /\ isRestorableUrl(fromRec) THEN fromRec
     ELSE IF fallback # EmptyUrl /\ isRestorableUrl(fallback) THEN fallback
     ELSE EmptyUrl

StubLoaded(id) ==
  /\ ShowsStub(id) /\ stubPage[id].pc = "none"
  /\ stubPage' = [stubPage EXCEPT ![id] =
                    IF StubLookup(tabs[id].url) = EmptyUrl
                      THEN [pc |-> "error", url |-> EmptyUrl]
                      ELSE [pc |-> "ready", url |-> StubLookup(tabs[id].url)]]
  /\ UNCHANGED << now, tabs, sw, lastActivityByTab, lastPersistTime, alarm, storeVars,
                  task, initTask, lastSignal, memAtKill, survived, lastWrite, importTask, origUrl >>

\* restore(url): storage.remove of the record first, then tabs.getCurrent
StubRestore(id) ==
  /\ ShowsStub(id) /\ stubPage[id].pc = "ready"
  /\ suspendedRec' = Del(suspendedRec, tabs[id].url.tabId)
  /\ stubPage' = [stubPage EXCEPT ![id].pc = "current"]
  /\ UNCHANGED << now, tabs, sw, lastActivityByTab, lastPersistTime, alarm,
                  storedActivity, settings, suspendedToday, backups, closedAndSaved,
                  lastAlarmRun, bookmarks, task, initTask, lastSignal, memAtKill, survived,
                  lastWrite,
                  importTask, origUrl >>

\* chrome.tabs.update(targetId, {url}): done, or rejected and the button is
\* enabled again
StubNavigate(id) ==
  /\ ShowsStub(id) /\ stubPage[id].pc = "current"
  /\ \E ok \in BOOLEAN :
       IF ok THEN /\ tabs' = [tabs EXCEPT ![id].url = stubPage[id].url]
                  /\ stubPage' = [stubPage EXCEPT ![id] = NoPage]
                  /\ origUrl' = Del(origUrl, id)
             ELSE /\ stubPage' = [stubPage EXCEPT ![id].pc = "ready"]
                  /\ UNCHANGED << tabs, origUrl >>
  /\ UNCHANGED << now, sw, lastActivityByTab, lastPersistTime, alarm, storeVars,
                  task, initTask, lastSignal, memAtKill, survived, lastWrite, importTask >>


(************************ the history page: import *************************)
\* an entry of a list as the export writes it
Entry(url, t) == [url |-> url, ts |-> t]

\* the files offered to importData: closedAndSaved and the backups by date
Files ==
  << [closedAndSaved |-> << Entry(WebA, StartTime - DayMs), Entry(WebB, StartTime - DayMs) >>,
      backups |-> [d \in Dates |->
                     IF d = DateOf(StartTime)
                       THEN << Entry(WebA, 0), Entry(WebA, StartTime - DayMs),
                               Entry(EmptyUrl, 0), Entry(WebB, 0) >>
                       ELSE <<>>]],
     [closedAndSaved |-> << Entry(WebB, StartTime - DayMs), Entry(WebB, StartTime - DayMs),
                            Entry(WebA, StartTime - DayMs), Entry(WebA, StartTime - DayMs) >>,
      backups |-> [d \in Dates |-> IF d = DateOf(StartTime) THEN << Entry(WebB, 0) >> ELSE <<>>]] >>

RECURSIVE ImportBucket(_, _, _)
\* push {url, ts: item.ts || Date.now()} for every item of list with a URL
\* that current does not hold yet
ImportBucket(current, list, t) ==
  IF list = <<>> THEN current
  ELSE LET item == Head(list)
           c == IF item.url # EmptyUrl /\ item.url \notin BucketUrls(current)
                  THEN Append(current, Entry(item.url, IF item.ts # 0 THEN item.ts ELSE t))
                  ELSE current
       IN ImportBucket(c, Tail(list), t)

\* the list importData writes
ImportClosed(fromFile, existing) == Slice(fromFile \o existing, CLOSED_SAVED_MAX)

\* importData has parsed file f: loadAll issues chrome.storage.local.get(null)
ImportStart(f) ==
  /\ importTask.pc = "idle"
  /\ importTask' = [pc |-> "loaded", file |-> f, closed |-> closedAndSaved,
                    buckets |-> backups]
  /\ UNCHANGED << now, tabs, sw, lastActivityByTab, lastPersistTime, alarm, storeVars,
                  task, initTask, lastSignal, memAtKill, survived, lastWrite, stubPage, origUrl >>

\* merge and chrome.storage.local.set(toSet): closedAndSaved and every bucket
\* that exists in the loaded data or in the file
ImportLoaded ==
  /\ importTask.pc = "loaded"
  /\ LET file == Files[importTask.file] IN
       /\ closedAndSaved' = ImportClosed(file.closedAndSaved, importTask.closed)
       /\ backups' = [d \in Dates |->
                        IF importTask.buckets[d] = <<>> /\ file.backups[d] = <<>>
                          THEN backups[d]
                          ELSE ImportBucket(importTask.buckets[d], file.backups[d], now)]
  /\ importTask' = IdleImport
  /\ UNCHANGED << now, tabs, sw, lastActivityByTab, lastPersistTime, alarm,
                  storedActivity, settings, suspendedToday, suspendedRec, lastAlarmRun,
                  bookmarks, task, initTask, lastSignal, memAtKill, survived,
                  lastWrite, stubPage, origUrl >>

(**************************** other events *********************************)
\* the user loads another page in the tab: chrome.tabs.onUpdated with
\* changeInfo.url only, which the listener passes over
Navigate(id, url) ==
  /\ sw = "up"
  /\ tabs[id].state = "open" /\ tabs[id].url # url
  /\ tabs' = [tabs EXCEPT ![id].url = url, ![id].discarded = FALSE]
  /\ UNCHANGED << lastActivityByTab, lastPersistTime, storedActivity, lastSignal,
                  lastWrite >>
  /\ stubPage' = [stubPage EXCEPT ![id] = NoPage]
  /\ origUrl' = Del(origUrl, id)
  /\ UNCHANGED << now, suspendedRec, restVars >>

\* the popup saves the settings
SaveSettings(enabled, timeoutMinutes, mode) ==
  /\ settings' = [enabled |-> enabled, timeoutMinutes |-> timeoutMinutes, mode |-> mode]
  /\ settings' # settings
  /\ UNCHANGED << now, tabs, sw, lastActivityByTab, lastPersistTime, alarm,
                  storedActivity, suspendedToday, suspendedRec, backups, closedAndSaved,
                  lastAlarmRun, bookmarks, task, initTask, lastSignal, memAtKill, survived,
                  lastWrite,
                  pageVars >>


(*************************** the message getStatus *************************)
\* Promise.all issues chrome.storage.local.get of the counter and of
\* lastAlarmRun, and the chrome.tabs.query of getEligibleTabsForBackup
StatusStart ==
  /\ sw = "up" /\ task["status"].pc = "idle"
  /\ SetTask("status", [IdleTask EXCEPT !.pc = "g_all", !.snap = QueryTabs,
                          !.cntN = suspendedToday.count,
                          !.cntDate = suspendedToday.date,
                          !.lastRun = lastAlarmRun])
  /\ UNCHANGED << now, tabs, sw, lastActivityByTab, lastPersistTime, alarm, storeVars,
                  initTask, lastSignal, memAtKill, survived, lastWrite, pageVars >>

\* the reply the handler sends when both results are in
StatusReply(t) ==
  [suspendedToday |-> IF t.cntDate = DateOf(now) THEN t.cntN ELSE 0,
   lastAlarmRun |-> t.lastRun,
   eligibleTabCount |-> Cardinality(BackupEligible(t.snap))]

\* safeSend(StatusReply)
StatusReplied ==
  /\ task["status"].pc = "g_all"
  /\ SetTask("status", IdleTask)
  /\ UNCHANGED << now, tabs, sw, lastActivityByTab, lastPersistTime, alarm, storeVars,
                  initTask, lastSignal, memAtKill, survived, lastWrite, pageVars >>

(************************* install and update ******************************)
\* the settings the onInstalled listener writes
DefaultSettings ==
  [enabled |-> TRUE, timeoutMinutes |-> INACTIVITY_MINUTES, mode |-> "placeholder"]

\* chrome.runtime.onInstalled (first install, update of the extension or of
\* the browser) starts the worker: the script runs initOnStartup() up to
\* chrome.alarms.create and the listener writes the settings.  The listener
\* then awaits initOnStartup() once more, which repeats the steps of the
\* first call; the model follows them once.
Installed ==
  /\ sw = "down"
  /\ sw' = "up"
  /\ alarm' = TRUE
  /\ settings' = DefaultSettings
  /\ initTask' = [IdleInit EXCEPT !.pc = "ensure"]
  /\ UNCHANGED << now, tabs, lastActivityByTab, lastPersistTime, storedActivity,
                  suspendedToday, suspendedRec, backups, closedAndSaved, lastAlarmRun,
                  bookmarks, task, lastSignal, memAtKill, survived, lastWrite, pageVars >>

(*************************** rejected host calls ***************************)
\* the function thrown out of by an exception that nothing catches
Escaped(t) == [IdleTask EXCEPT !.pc = "thrown"]

\* The function of task k ends by an exception: onAlarmCheck in its catch
\* block, a message handler in the .catch (or try/catch) that sends the reply.
Caught(t) == IdleTask

ReadPcs(k) ==
  IF k = "fire" THEN {"f_load", "f_settings", "f_query", "b_tree", "b_get"}
  ELSE IF k = "all" THEN {"a_load", "a_settings", "a_query", "b_tree", "b_get"}
  ELSE {}

\* a call that the function awaits outside any inner try rejects: the read
\* of the stored state, of the settings or of the bucket, chrome.tabs.query,
\* or a call of getOrCreateBackupFolder
Rejected(k) ==
  /\ task[k].pc \in ReadPcs(k)
  /\ SetTask(k, Caught(task[k]))
  /\ UNCHANGED << now, tabs, sw, lastActivityByTab, lastPersistTime, alarm, storeVars,
                  initTask, lastSignal, memAtKill, survived, lastWrite, pageVars >>

\* chrome.tabs.query rejects inside pruneStaleTabIds, which catches it: the
\* map is left as it is and getSettings reads the settings
PruneRejected ==
  /\ task["fire"].pc = "f_prune"
  /\ SetTask("fire", ReadSettings([task["fire"] EXCEPT !.pc = "f_settings", !.ids = {}]))
  /\ UNCHANGED << now, tabs, sw, lastActivityByTab, lastPersistTime, alarm, storeVars,
                  initTask, lastSignal, memAtKill, survived, lastWrite, pageVars >>

\* suspendPlaceholder: the write of suspended_<id> rejects; the call is
\* outside the try, so the exception leaves the function and its caller's loop
RecordWriteRejected(k) ==
  /\ k \in Suspenders /\ task[k].pc = "get"
  /\ task[k].res /\ task[k].mode = "placeholder"
  /\ SetTask(k, Caught(task[k]))
  /\ UNCHANGED << now, tabs, sw, lastActivityByTab, lastPersistTime, alarm, storeVars,
                  initTask, lastSignal, memAtKill, survived, lastWrite, pageVars >>

\* suspendPlaceholder: after the rejected navigation the removal of
\* suspended_<id> rejects too; it is awaited in the catch block
RollbackRejected(k) ==
  /\ k \in Suspenders /\ task[k].pc = "p_nav" /\ ~task[k].res
  /\ SetTask(k, Caught(task[k]))
  /\ UNCHANGED << now, tabs, sw, lastActivityByTab, lastPersistTime, alarm, storeVars,
                  initTask, lastSignal, memAtKill, survived, lastWrite, pageVars >>

\* incrementSuspendedToday rejects (its read, or the write that follows):
\* suspendDiscard returns false; suspendPlaceholder removes the record and
\* returns false
CounterRejected(k) ==
  /\ k \in Suspenders /\ task[k].pc = "inc_get"
  /\ LET t == task[k] IN
       IF t.mode = "discard"
         THEN /\ SetTask(k, Returned(k, t, FALSE, lastActivityByTab))
              /\ UNCHANGED suspendedRec
         ELSE /\ suspendedRec' = Del(suspendedRec, t.cur)
              /\ SetTask(k, [t EXCEPT !.pc = "p_rollback"])
  /\ UNCHANGED << now, tabs, sw, lastActivityByTab, lastPersistTime, alarm,
                  storedActivity, settings, suspendedToday, backups, closedAndSaved,
                  lastAlarmRun, bookmarks, initTask, lastSignal, memAtKill, survived,
                  lastWrite, pageVars >>


(**************************** browser restart ******************************)
\* The browser is closed and started again with its session restored: the
\* open tabs come back under ids handed out anew (f gives the old id of each
\* new one), every page is loaded again at its address, so a stub address
\* keeps its tabId parameter; the storage is kept, the worker is gone.
BrowserRestart ==
  /\ sw = "up"
  /\ \E f \in Permutations(TabIds) :
       /\ \A id \in TabIds \ OpenIds : f[id] = id
       /\ tabs' = [id \in TabIds |-> tabs[f[id]]]
       /\ lastSignal' = [id \in { x \in TabIds : f[x] \in DOMAIN lastSignal } |->
                           lastSignal[f[id]]]
       /\ origUrl' = [id \in { x \in TabIds : f[x] \in DOMAIN origUrl } |->
                        origUrl[f[id]]]
  /\ sw' = "down"
  /\ lastActivityByTab' = EmptyMap
  /\ lastPersistTime' = 0
  /\ task' = [k \in TaskNames |-> IdleTask]
  /\ initTask' = IdleInit
  /\ stubPage' = [id \in TabIds |-> NoPage]
  /\ importTask' = IdleImport
  /\ memAtKill' = EmptyMap
  /\ survived' = {}
  /\ UNCHANGED << now, alarm, storeVars, lastWrite >>

(*************************** specifications ********************************)
\* the pages the tabs of the scheduler runs show
CoreUrls == {WebA, AboutBlank}

\* the user stays on tab 1; pages report activity, a second tab is opened in
\* the background and closed
TabEvent ==
  \E id \in 1..(MaxTabs - 1) :
    \/ ActivityPing(id)
    \/ CloseTab(id)
    \/ \E url \in CoreUrls : CreateTab(id, url, FALSE)

\* the user switches the mode in the popup
SwitchMode ==
  \E m \in Modes : SaveSettings(settings.enabled, settings.timeoutMinutes, m)

Startup == InitEnsured \/ InitLoaded \/ InitQueried

\* the steps of a firing while no tab is opened or closed, and all of them
FireStepsSettled ==
  FireSetDone \/ FireAlarmed \/ FireLoaded \/ FirePruned \/ FireSettings \/ FireQueried

FireSteps == FireStepsSettled \/ FirePruneWritten \/ FireSeedWritten

Firing == FireStart \/ FireSteps

\* the steps of a suspension in discard mode, in placeholder mode, in either
SuspendByDiscard(k) ==
  SuspendGot(k) \/ SuspendDiscarded(k) \/ IncRead(k) \/ IncWritten(k)

SuspendByPlaceholder(k) ==
  \/ SuspendGot(k) \/ SuspendWritten(k) \/ SuspendNavigated(k)
  \/ SuspendRolledBack(k) \/ IncRead(k) \/ IncWritten(k)

Suspend(k) == SuspendByDiscard(k) \/ SuspendByPlaceholder(k)

Backup(k) ==
  \/ BackupTreeRead(k) \/ BackupRootCreated(k) \/ BackupFolderCreated(k)
  \/ BackupMarked(k) \/ BackupRead(k) \/ BackupWritten(k)

AllSteps == AllLoaded \/ AllSettings \/ AllQueried

\* the number of operations under way
InFlight ==
  Cardinality({ k \in TaskNames : task[k].pc # "idle" })
    + (IF importTask.pc # "idle" THEN 1 ELSE 0)
    + (IF initTask.pc # "idle" THEN 1 ELSE 0)

\* an operation starts while fewer than MaxInFlight are under way
MayStart == InFlight < MaxInFlight

Init == InitWith(CoreUrls, MaxTabs - 2, 0)

Next ==
  \/ Tick
  \/ TabEvent
  \/ SwitchMode
  \/ Firing
  \/ Suspend("fire")
  \/ Backup("fire")

Spec == Init /\ [][Next]_vars

\* the host has carried out the suspend action of task k on the tab at hand:
\* the unload in discard mode, the navigation to the stub page in placeholder
\* mode
Applied(k) ==
  /\ task'[k].res
  /\ \/ task[k].pc = "get" /\ task'[k].pc = "discard"
     \/ task[k].pc = "p_write" /\ task'[k].pc = "p_nav"

\* the loop of the firing moves on: to the next tab it suspends, or to its end
LoopMoves ==
  /\ sw' = "up"
  /\ task["fire"].pc \in {"f_query", "f_seedw", "get", "discard", "p_rollback", "inc_set"}
  /\ task'["fire"].pc \in {"get", "b_tree", "idle"}

\* tab id of the firing's list is passed over in this step
Skipped(id) ==
  /\ LoopMoves
  /\ id \in DOMAIN task["fire"].snap
  /\ id > task["fire"].i
  /\ task'["fire"].pc = "get" => id < task'["fire"].cur

TimedOut(id, timeoutMinutes) ==
  id \in DOMAIN lastSignal /\ now - lastSignal[id] >= timeoutMinutes * MinuteMs

\* C2: with T the time of the tab's last activity signal and M the timeout, a
\* firing suspends the tab only at a time >= T + M*60000; a firing at such a
\* time passes over no open eligible tab; and each suspension raises the
\* stored count of its date by exactly 1.
C2_TimeoutScenario ==
  [][/\ Applied("fire") =>
          TimedOut(task["fire"].cur, task["fire"].timeout)
     /\ \A id \in TabIds :
          (/\ Skipped(id)
           /\ tabs[id].state = "open"
           /\ isTabEligibleForSuspend(tabs[id], FALSE))
            => ~TimedOut(id, task["fire"].timeout)
     /\ (task["fire"].pc = "inc_get" /\ task'["fire"].pc = "inc_set") =>
          /\ suspendedToday'.date = DateOf(now)
          /\ suspendedToday'.count =
               IF suspendedToday.date = DateOf(now) THEN suspendedToday.count + 1 ELSE 1]_vars

\* C3: once an activity signal of a tab has been recorded at time t, no
\* firing that begins after t suspends the tab at a time earlier than
\* t + timeout.
C3_MemoryCurrent ==
  [][Applied("fire") =>
       \A id \in DOMAIN lastSignal :
         (id = task["fire"].cur /\ lastSignal[id] < lastAlarmRun) =>
           now >= lastSignal[id] + task["fire"].timeout * MinuteMs]_vars

\* a tab is suspended: unloaded, or on a stub page
IsSuspended(tab) ==
  tab.discarded \/ (tab.url # EmptyUrl /\ isPlaceholderTabUrl(tab.url))

\* C6: a firing applies the suspend action only to a tab that is not
\* suspended already, so the count is raised once per suspended tab.
C6_NoDoubleSuspend ==
  [][Applied("fire") => ~IsSuspended(tabs[task["fire"].cur])]_vars

\* tab id is open and shows the stub page it was put on
OnOwnStub(id) ==
  /\ tabs[id].state = "open"
  /\ id \in DOMAIN origUrl
  /\ tabs[id].url = StubUrl(CurExt, id, origUrl[id])

(****************** the requests of the popup and the pages *****************)
ManualUrls == {WebA, WebLong, FtpUrl}

InitManual ==
  /\ InitWith(ManualUrls, MaxTabs - 1, 0)
  /\ tabs[1].url = WebA

\* the user sends a request when the one before is answered
MayAsk == InFlight = 0

SuspendCurrent == CurQueried \/ CurSettings \/ Suspend("cur")

RestoreAll == RestoreQueried \/ RestoreRead \/ RestoreNavigated \/ RestoreRemoved

StubPage == \E id \in TabIds : StubLoaded(id) \/ StubRestore(id) \/ StubNavigate(id)

NextManual ==
  \/ \E id \in TabIds : Activate(id) \/ TogglePinned(id)
  \/ (MayAsk /\ AllStart) \/ AllSteps \/ Suspend("all") \/ Backup("all")
  \/ (MayAsk /\ CurStart) \/ SuspendCurrent
  \/ (MayAsk /\ RestoreStart) \/ RestoreAll
  \/ StubPage

SpecManual == InitManual /\ [][NextManual]_vars

\* C1: a firing or a suspend-all-now run suspends no tab that is active,
\* pinned, audible, incognito, on a chrome:// or chrome-extension:// URL or on
\* a stub page.
C1_ExcludedNeverSuspended ==
  [][\A k \in {"fire", "all"} :
       Applied(k) => isTabEligibleForSuspend(tabs[task[k].cur], FALSE)]_vars

\* C5: while a tab is open on the stub page it was put on, with U the URL it
\* showed before, and no restore of it is under way, every restore lookup for it yields U: the reply to
\* getRestoreData, the lookup of the stub page, and the target of
\* restore-all-suspended.
C5_RoundTrip ==
  \A id \in TabIds :
    (OnOwnStub(id) /\ stubPage[id].pc # "current") =>
      /\ getRestoreData(id) = origUrl[id]
      /\ StubLookup(tabs[id].url) = origUrl[id]
      /\ RestoreTarget([IdleTask EXCEPT !.snap = QueryTabs, !.cur = id,
                                        !.itemUrl = getRestoreData(id)]) = origUrl[id]

(************** the scheduler with restarts of the worker *******************)
\* the clock moves within the first throttle window
TickSeconds ==
  /\ \E t \in Instants : t > now /\ t < StartTime + PERSIST_THROTTLE_MS /\ now' = t
  /\ UNCHANGED << tabs, sw, lastActivityByTab, lastPersistTime, alarm, storeVars,
                  task, initTask, lastSignal, memAtKill, survived, lastWrite, pageVars >>

InitRestart ==
  /\ InitWith({WebA, WebLong}, MaxTabs - 1, MinuteMs)
  /\ tabs[1].url = WebA
  /\ settings.mode = "placeholder" /\ settings.timeoutMinutes = 1

NextRestart ==
  \/ \E id \in TabIds : Activate(id)
  \/ Teardown \/ Wake \/ Startup
  \/ FireStart \/ FireStepsSettled
  \/ SuspendByPlaceholder("fire") \/ Backup("fire")

SpecRestart == InitRestart /\ [][NextRestart]_vars

\* a step in which the record of a tab that stays open leaves the storage
RecordDeleted(id) ==
  /\ id \in DOMAIN suspendedRec /\ id \notin DOMAIN suspendedRec'
  /\ tabs'[id].state = "open"

\* the navigation to the stub page is issued for the tab at hand
NavigationIssued(k) == task[k].pc = "p_write" /\ task'[k].pc = "p_nav"

InitThrottle ==
  /\ InitWith({WebA}, MaxTabs - 1, MinuteMs)
  /\ settings.mode = "discard" /\ settings.timeoutMinutes = 1

NextThrottle ==
  \/ TickSeconds
  \/ \E id \in TabIds : Activate(id)
  \/ Teardown \/ Wake \/ Startup
  \/ FireStart \/ FireStepsSettled
  \/ SuspendByDiscard("fire") \/ Backup("fire")

SpecThrottle == InitThrottle /\ [][NextThrottle]_vars

(************ close-and-save and import: the closedAndSaved list ************)
CloseAndSave == CloseStart \/ CloseQueried \/ CloseRead \/ CloseNext

Import == (\E f \in DOMAIN Files : ImportStart(f)) \/ ImportLoaded

InitClosed == InitWith({WebA, WebB}, MaxTabs, 0)

NextClosed ==
  \/ \E id \in TabIds : Activate(id)
  \/ CloseAndSave
  \/ Import

SpecClosed == InitClosed /\ [][NextClosed]_vars

(********************* the backup buckets of the days **********************)
InitBackup ==
  /\ InitWith({WebA, WebB}, MaxTabs - 1, MinuteMs)
  /\ tabs[1].url = WebA /\ tabs[2].url = WebB
  /\ settings.mode = "discard" /\ settings.timeoutMinutes = 1

NextBackup ==
  \/ Teardown \/ Wake \/ Startup
  \/ (MayStart /\ FireStart) \/ FireStepsSettled
  \/ SuspendByDiscard("fire") \/ Backup("fire")
  \/ (MayStart /\ AllStart) \/ AllSteps
  \/ SuspendByDiscard("all") \/ Backup("all")
  \/ (MayStart /\ BackupStart) \/ BackupQueried \/ Backup("backup")
  \/ (MayStart /\ \E f \in DOMAIN Files : ImportStart(f)) \/ ImportLoaded

SpecBackup == InitBackup /\ [][NextBackup]_vars

NoDupUrls(q) == \A i, j \in 1..Len(q) : q[i].url = q[j].url => i = j

IsPrefix(p, q) == Len(p) <= Len(q) /\ p = SubSeq(q, 1, Len(p))

CloseWrites == task["close"].pc = "s_get" /\ task'["close"].pc = "s_set"

ImportWrites == importTask.pc = "loaded" /\ importTask'.pc = "idle"

\* C9: the stored closedAndSaved list never holds more than CLOSED_SAVED_MAX
\* entries, and every write of it by close-and-save-all or by an import stores
\* the new entries followed by the list the writer read, cut at the tail: all
\* of it when it fits, its first CLOSED_SAVED_MAX entries otherwise.
C9_ClosedSavedCap ==
  /\ [](Len(closedAndSaved) <= CLOSED_SAVED_MAX)
  /\ [][/\ CloseWrites =>
             LET all == Reverse(task["close"].toSave) \o task["close"].bucket
             IN /\ IsPrefix(closedAndSaved', all)
                /\ Len(closedAndSaved') = IF Len(all) < CLOSED_SAVED_MAX
                                            THEN Len(all) ELSE CLOSED_SAVED_MAX
        /\ ImportWrites =>
             LET all == Files[importTask.file].closedAndSaved \o importTask.closed
             IN /\ IsPrefix(closedAndSaved', all)
                /\ Len(closedAndSaved') = IF Len(all) < CLOSED_SAVED_MAX
                                            THEN Len(all) ELSE CLOSED_SAVED_MAX
        /\ closedAndSaved' # closedAndSaved => CloseWrites \/ ImportWrites]_vars

\* a close-and-save-all write that had to drop entries to keep the cap
C9_Witness ==
  /\ task["close"].pc = "s_set"
  /\ task["close"].bucket # <<>>
  /\ Len(task["close"].toSave) + Len(task["close"].bucket) > CLOSED_SAVED_MAX
  /\ Len(closedAndSaved) = CLOSED_SAVED_MAX
  /\ closedAndSaved[1].url = task["close"].toSave[Len(task["close"].toSave)].url

\* C7: the timestamp the first firing after a restart loads for an open tab
\* is at most PERSIST_THROTTLE_MS older than the one the memory held for the
\* tab at the teardown.
C7_BoundedLoss ==
  [][(task["fire"].pc = "f_load" /\ task'["fire"].pc = "f_prune") =>
       \A id \in DOMAIN memAtKill :
         (tabs[id].state = "open" /\ id \in DOMAIN lastActivityByTab') =>
           lastActivityByTab'[id] >= memAtKill[id] - PERSIST_THROTTLE_MS]_vars

\* C8: on every date the stored bucket backup_<date> holds at most one entry
\* per URL.
C8_BucketUnique == \A d \in Dates : NoDupUrls(backups[d])

\* a backup has written a bucket that held some of its URLs already
C8_Witness ==
  \E k \in BackupTasks :
    /\ task[k].pc = "b_set"
    /\ \E j \in 1..Len(task[k].toBackup) : task[k].toBackup[j] \in BucketUrls(task[k].bucket)
    /\ \E j \in 1..Len(task[k].toBackup) : task[k].toBackup[j] \notin BucketUrls(task[k].bucket)
    /\ Len(backups[task[k].today]) = Len(task[k].bucket) + 1

\* C10: the entries one close-and-save-all request prepends to closedAndSaved
\* hold each URL once.
C10_BatchDistinct ==
  [][CloseWrites =>
       NoDupUrls(SubSeq(closedAndSaved', 1,
                        IF Len(task["close"].toSave) < CLOSED_SAVED_MAX
                          THEN Len(task["close"].toSave) ELSE CLOSED_SAVED_MAX))]_vars

(********************** the history page: import ***************************)
\* C11: an import of a file whose closedAndSaved entries hold each URL once,
\* into a stored list that holds each URL once, writes a list that holds each
\* URL once.
C11_ImportNoDuplicates ==
  [][ImportWrites =>
       ((NoDupUrls(Files[importTask.file].closedAndSaved) /\ NoDupUrls(importTask.closed))
          => NoDupUrls(closedAndSaved'))]_vars

(******************* batches with rejected host calls **********************)
\* two idle background tabs beside the active one; either mode
InitFaults ==
  /\ InitWith({WebA, WebB}, MaxTabs, MinuteMs)
  /\ tabs[1].url = WebA
  /\ settings.timeoutMinutes = 1

Faults(k) ==
  Rejected(k) \/ RecordWriteRejected(k) \/ RollbackRejected(k) \/ CounterRejected(k)

NextFaults ==
  \/ CloseTab(MaxTabs)
  \/ FireStart \/ FireStepsSettled \/ Suspend("fire") \/ Backup("fire")
  \/ Faults("fire") \/ PruneRejected

SpecFaults == InitFaults /\ [][NextFaults]_vars

\* the awaits of the suspension of one tab
PerTabPcs == {"get", "discard", "p_write", "p_nav", "p_rollback", "inc_get", "inc_set"}

\* C12: whatever happens while a firing or a suspend-all-now run suspends one
\* tab of its list, the run stays in that suspension or goes on as after a
\* return of the suspend function: to the next tab that passes, else to the
\* backup pass over the tabs it suspended, else to its end.
C12_BatchGoesOn ==
  [][\A k \in {"fire", "all"} :
       (task[k].pc \in PerTabPcs /\ task'[k] # task[k]) =>
         \/ task'[k].pc \in PerTabPcs \ {"get"}
         \/ \E ok \in BOOLEAN : task'[k] = Returned(k, task[k], ok, lastActivityByTab)]_vars

\* the awaits of onAlarmCheck, and its end
FirePcs ==
  PerTabPcs \cup {"idle", "f_set", "f_alarm", "f_load", "f_prune", "f_prunew",
                  "f_settings", "f_query", "f_seedw",
                  "b_tree", "b_root", "b_date", "b_marks", "b_get", "b_set"}

\* a rejected call that no inner try of the firing catches
FireFails ==
  Rejected("fire") \/ RecordWriteRejected("fire") \/ RollbackRejected("fire")

C14_InactiveIff ==
  \A id \in DOMAIN lastActivityByTab : \A M \in 1..(MaxTimeout + 1) :
    isTabInactive(lastActivityByTab, id, M) <=> (now - lastActivityByTab[id] >= M * MinuteMs)

\* the loop of a firing has chosen a tab whose entry is exactly one timeout old
C14_Witness ==
  /\ task["fire"].pc = "get"
  /\ task["fire"].cur \in DOMAIN lastActivityByTab
  /\ now - lastActivityByTab[task["fire"].cur] = task["fire"].timeout * MinuteMs
  /\ \E id \in DOMAIN lastActivityByTab :
       0 < now - lastActivityByTab[id] /\ now - lastActivityByTab[id] < MinuteMs

(********************* what the placeholder mode redirects ******************)
\* C15: the navigation to the stub page is issued only for a tab whose URL
\* the stub page accepts as restorable (http, https or file), by the firing,
\* by suspend-all-now and by suspend-current-tab; so a tab on the stub page
\* it was put on showed such a URL before.
C15_OnlyRestorableRedirected ==
  /\ [][\A k \in Suspenders :
          NavigationIssued(k) => isRestorableUrl(task[k].snap[task[k].cur].url)]_vars
  /\ [](\A id \in TabIds : OnOwnStub(id) => isRestorableUrl(origUrl[id]))

(******************** the lifetime of a stored record **********************)
\* a placeholder suspension of tab id is between the write of its record and
\* the outcome of its navigation
InSuspension(id) ==
  \E k \in Suspenders : task[k].cur = id /\ task[k].pc \in {"p_write", "p_nav"}

\* restore-all-suspended has navigated a tab with the record of id and is
\* about to remove the record
InRestore(id) == task["restore"].pc = "r_nav" /\ task["restore"].tid = id

\* C16: whenever suspended_<id> is in storage, tab id is open and shows a stub
\* page, or the suspension that wrote the record is still navigating the
\* tab, or a restore that navigated the tab is about to remove the record.
C16_RecordBacksStub ==
  \A id \in DOMAIN suspendedRec :
    /\ tabs[id].state = "open"
    /\ isPlaceholderTabUrl(tabs[id].url) \/ InSuspension(id) \/ InRestore(id)

(********************** restores without a source **************************)
\* the u parameter of a stub address
FallbackOf(url) == IF url.u # 0 THEN PageUrls[url.u] ELSE EmptyUrl

\* C17: when neither the record nor the u parameter holds an http, https or
\* file URL, restore-all-suspended leaves the tab, the storage and its count
\* as they are, and the stub page offers no restore: its restore runs only
\* with a URL that is restorable.
C17_NoSourceNoChange ==
  /\ [][(/\ task["restore"].pc = "r_get"
         /\ task'["restore"] # task["restore"]
         /\ ~isRestorableUrl(task["restore"].itemUrl)
         /\ ~isRestorableUrl(FallbackOf(task["restore"].snap[task["restore"].cur].url)))
          => /\ tabs' = tabs
             /\ suspendedRec' = suspendedRec
             /\ task'["restore"].pc # "r_nav"]_vars
  /\ [](\A id \in TabIds :
          stubPage[id].pc \in {"ready", "current"} => isRestorableUrl(stubPage[id].url))

(********************* the order of a restore's steps **********************)
\* an open tab shows the stub page of this installation made for tab id
OnStubOf(p, id) ==
  /\ tabs[p].state = "open"
  /\ isSuspendedPlaceholderUrl(tabs[p].url)
  /\ tabs[p].url.tabId = id

\* C18: when a restore (restore-all-suspended or the stub page's own) removes
\* the record of a tab, the navigation of the tab has succeeded: no open tab
\* shows the stub page of that record any more.  (The other removal of the
\* record of an open tab, the rollback of a suspension, is set apart.)
C18_NavigateThenDelete ==
  [][\A id \in TabIds :
       (/\ RecordDeleted(id)
        /\ ~\E k \in Suspenders : task[k].cur = id /\ task[k].pc = "p_nav")
         => ~\E p \in TabIds : OnStubOf(p, id)]_vars

(*********************** who writes the settings ***************************)
\* the user saves settings in the popup
UserSaves ==
  \E enabled \in BOOLEAN, timeoutMinutes \in 1..MaxTimeout, mode \in Modes :
    SaveSettings(enabled, timeoutMinutes, mode)

InitInstall == InitWith({WebA}, MaxTabs - 1, 0)

\* the user saves settings, the worker is torn down and started again, by an
\* event or by an install or update; alarms fire and the popup sends requests
NextInstall ==
  \/ UserSaves
  \/ Teardown \/ Wake \/ Installed \/ Startup
  \/ FireStart \/ FireStepsSettled
  \/ (MayAsk /\ RestoreStart) \/ RestoreQueried

SpecInstall == InitInstall /\ [][NextInstall]_vars

\* C19: every step that changes the stored settings is a save by the user.
C19_SettingsOnlyByUser == [][settings' # settings => UserSaves]_vars

(************************** the daily counter ******************************)
\* a firing and a suspend-all-now request at the same time, in discard mode,
\* with two idle background tabs
InitCounter ==
  /\ InitWith({WebA}, MaxTabs, MinuteMs)
  /\ settings.mode = "discard" /\ settings.timeoutMinutes = 1

NextCounter ==
  \/ (MayStart /\ FireStart) \/ FireStepsSettled
  \/ (MayStart /\ AllStart) \/ AllSteps
  \/ SuspendByDiscard("fire") \/ SuspendByDiscard("all")
  \/ Backup("fire") \/ Backup("all")

SpecCounter == InitCounter /\ [][NextCounter]_vars

\* C20: the stored count follows the confirmed suspensions one by one: the
\* write that follows a confirmed suspension, by a firing, by
\* suspend-all-now or by suspend-current-tab, stores today's date and a
\* count one above the stored count of today, or 1 when the stored date is
\* not today.
C20_CountsEverySuspension ==
  [][\A k \in Suspenders :
       (task[k].pc = "inc_get" /\ task'[k].pc = "inc_set") =>
         /\ suspendedToday'.date = DateOf(now)
         /\ suspendedToday'.count =
              IF suspendedToday.date = DateOf(now) THEN suspendedToday.count + 1 ELSE 1]_vars

(*********************** the count of get-status ***************************)
StatusUrls == {WebA, ChromeUrl, LookalikeUrl}

InitStatus == InitWith(StatusUrls, MaxTabs - 1, 0)

\* the user switches tabs, pins the second one, its page starts and stops
\* playing sound, a third tab is opened (in an incognito window or not) and
\* closed, and the popup asks for the status
NextStatus ==
  \/ \E id \in TabIds : Activate(id)
  \/ TogglePinned(MaxTabs - 1) \/ ToggleAudible(MaxTabs - 1) \/ CloseTab(MaxTabs)
  \/ \E incog \in BOOLEAN : CreateTab(MaxTabs, WebA, incog)
  \/ StatusStart \/ StatusReplied

SpecStatus == InitStatus /\ [][NextStatus]_vars

\* the tabs of a list that the eligibility filter lets through
FilterEligible(snap) ==
  { id \in DOMAIN snap : isTabEligibleForSuspend(snap[id], FALSE) }

\* C21: the eligibleTabCount of the get-status reply is the number of tabs of
\* the queried list that pass the eligibility filter.
C21_StatusCountsEligible ==
  task["status"].pc = "g_all" =>
    StatusReply(task["status"]).eligibleTabCount
      = Cardinality(FilterEligible(task["status"].snap))

(********************* the seeding of unknown tabs *************************)
\* the user switches the policy on and off in the popup
SwitchEnabled == SaveSettings(~settings.enabled, settings.timeoutMinutes, settings.mode)

\* tab 2 has been idle for a minute; discard mode
InitSeed ==
  /\ InitWith({WebA}, MaxTabs - 1, MinuteMs)
  /\ settings.mode = "discard" /\ settings.timeoutMinutes = 1

\* the page of tab 1 reports activity, a third tab is opened in the
\* background, the worker is torn down and started again, the user switches
\* the policy, alarms fire
NextSeed ==
  \/ ActivityPing(1) \/ CreateTab(MaxTabs, WebA, FALSE)
  \/ Teardown \/ Wake \/ Startup
  \/ SwitchEnabled
  \/ FireStart \/ FireStepsSettled \/ FireSeedWritten
  \/ SuspendByDiscard("fire") \/ Backup("fire")

SpecSeed == InitSeed /\ [][NextSeed]_vars

\* the firing returns (the worker stays up)
FireReturns ==
  task["fire"].pc # "idle" /\ task'["fire"].pc = "idle" /\ sw' = "up"

\* C22: when a firing returns, with the policy enabled or disabled, every
\* open tab has an entry in the activity map; and a firing suspends only a
\* tab whose entry is older than the firing (none it has seeded itself).
C22_SeedsBeforeEnabledCheck ==
  [][/\ FireReturns =>
          \A id \in TabIds :
            tabs'[id].state = "open" => id \in DOMAIN lastActivityByTab'
     /\ Applied("fire") =>
          /\ task["fire"].cur \in DOMAIN lastActivityByTab
          /\ lastActivityByTab[task["fire"].cur] < lastAlarmRun]_vars

(************************ the bookmark mirror ******************************)
\* backups one after the other: backup-now requests and firings
NextMirror ==
  \/ (MayAsk /\ BackupStart) \/ BackupQueried \/ Backup("backup")
  \/ (MayAsk /\ FireStart) \/ FireStepsSettled
  \/ SuspendByDiscard("fire") \/ Backup("fire")

SpecMirror == InitBackup /\ [][NextMirror]_vars

\* the number of bookmarks for the page i in the folder of date d
MarksOf(d, i) == bookmarks.marks[d][i]

\* C23: whenever no backup is under way, the folder of each date holds
\* exactly one bookmark for each URL of the bucket of that date and none for
\* any other URL.
C23_MirrorMatchesBucket ==
  (\A k \in BackupTasks : task[k].pc = "idle") =>
    \A d \in Dates : \A i \in 1..Len(PageUrls) :
      MarksOf(d, i) = IF PageUrls[i] \in BucketUrls(backups[d]) THEN 1 ELSE 0

(************************* the backup folders ******************************)
\* C24: the bookmark tree holds at most one folder "Tab Backup" and, under
\* it, at most one folder per date, also when backups run at the same time.
C24_FoldersOnce ==
  /\ bookmarks.roots <= 1
  /\ \A d \in Dates : bookmarks.folders[d] <= 1

(******************** the reply of suspend-all-now *************************)
\* suspend-all-now requests one after the other, with rejected host calls
NextAllFaults ==
  \/ (MayAsk /\ AllStart) \/ AllSteps \/ Suspend("all") \/ Backup("all")
  \/ Faults("all")

SpecAllFaults == InitFaults /\ [][NextAllFaults]_vars

\* runSuspendAllNow rejects: the handler's .catch sends the reply
AllFails ==
  Rejected("all") \/ RecordWriteRejected("all") \/ RollbackRejected("all")

\* the handler of suspendAllNow sends its reply
AllReplies ==
  task["all"].pc # "idle" /\ task'["all"].pc = "idle" /\ sw' = "up"

\* the number suspended of the reply: the counter of runSuspendAllNow when
\* it returns, 0 from the .catch
AllReplySuspended == IF AllFails THEN 0 ELSE task["all"].suspended

\* the tabs of the run's list that the run has unloaded or put on a stub page
SuspendedBy(t) ==
  { id \in DOMAIN t.snap : IsSuspended(tabs[id]) /\ ~IsSuspended(t.snap[id]) }

\* the loop of suspend-all-now passes over tab id of its list in this step
AllSkipped(id) ==
  /\ ~AllFails
  /\ task["all"].pc \in {"a_query", "get", "discard", "p_rollback", "inc_get", "inc_set"}
  /\ task'["all"].pc \in {"get", "b_tree", "idle"}
  /\ id \in DOMAIN task["all"].snap
  /\ id > task["all"].i
  /\ task'["all"].pc = "get" => id < task'["all"].cur

\* C25: suspend-all-now passes over no tab of its list that the eligibility
\* filter lets through, and the number suspended of its reply is the number
\* of tabs the run has suspended, also when a host call was rejected.
C25_ReplyCountsSuspended ==
  [][/\ \A id \in TabIds :
          AllSkipped(id) => ~isTabEligibleForSuspend(task["all"].snap[id], FALSE)
     /\ AllReplies =>
          AllReplySuspended = Cardinality(SuspendedBy(task["all"]))]_vars

(*********************** suspensions that fall through *********************)
\* the suspension of the tab at hand ends by "return false": chrome.tabs.get
\* has rejected (the tab is gone), chrome.tabs.discard has rejected, or
\* chrome.tabs.update has rejected and the record has been removed
ReturnsFalse(k) ==
  /\ task'[k] # task[k] /\ sw' = "up"
  /\ \/ task[k].pc = "get" /\ ~task[k].res
     \/ task[k].pc = "discard" /\ ~task[k].res
     \/ task[k].pc = "p_rollback"

\* every URL of the list q is in the list p
UrlsWithin(q, p) == \A j \in 1..Len(q) : \E i \in 1..Len(p) : p[i] = q[j]

\* C26: when the tab is gone at chrome.tabs.get or the unload or the
\* navigation is rejected, the suspension of that tab returns false and the
\* run goes on with its next tab: the counter is read only after an unload
\* or navigation that succeeded, the record written before a rejected
\* navigation is removed in the next step, no record of the tab is in
\* storage when false is returned, and the return adds no URL to the list
\* of the backup pass.
C26_AbortedAlone ==
  [][\A k \in Suspenders :
       /\ ReturnsFalse(k) =>
            /\ task'[k] = Returned(k, task[k], FALSE, lastActivityByTab)
            /\ task'[k].pc \in {"get", "b_tree", "idle"}
            /\ UrlsWithin(task'[k].toBackup, task[k].toBackup)
            /\ suspendedToday' = suspendedToday
            /\ task[k].cur \notin DOMAIN suspendedRec'
       /\ (task[k].pc = "p_nav" /\ ~task[k].res /\ task'[k] # task[k] /\ sw' = "up") =>
            /\ task'[k].pc = "p_rollback"
            /\ task[k].cur \notin DOMAIN suspendedRec'
       /\ (task[k].pc # "inc_get" /\ task'[k].pc = "inc_get") =>
            task[k].res /\ task[k].pc \in {"discard", "p_nav"}
       /\ suspendedToday' # suspendedToday =>
            \E j \in Suspenders : task[j].pc = "inc_get"]_vars

\* a firing in placeholder mode whose tab was closed after chrome.tabs.get:
\* the navigation was rejected and the record written for the tab is removed
C26_Witness ==
  /\ task["fire"].pc = "p_rollback"
  /\ tabs[task["fire"].cur].state = "closed"
  /\ task["fire"].cur \notin DOMAIN suspendedRec
  /\ suspendedToday.count = 0

(********************** firings under a disabled policy ********************)
\* the awaits of a firing up to the test of settings.enabled
EarlyPcs == {"idle", "f_set", "f_alarm", "f_load", "f_prune", "f_prunew", "f_settings"}

\* the firing moves from the await at pc p to the await at pc q
FireGoes(p, q) == task["fire"].pc = p /\ task'["fire"].pc = q

\* C27: a firing records its time, registers the alarm again, loads and
\* prunes the map; up to the test of settings.enabled it leaves the tabs,
\* the records, the counter, the buckets and the bookmarks as they are; and
\* when it has read the policy as disabled it returns at the test.  The
\* alarm is registered at all times.
C27_DisabledFiringIdles ==
  /\ []alarm
  /\ [][/\ FireGoes("idle", "f_set") => lastAlarmRun' = now
        /\ FireGoes("f_set", "f_alarm") => alarm'
        /\ FireGoes("f_load", "f_prune") =>
             lastActivityByTab' = getStoredState(lastActivityByTab, task["fire"].raw, now)
        /\ (FireGoes("f_prune", "f_prunew") \/ FireGoes("f_prune", "f_settings")) =>
             /\ lastActivityByTab' = Keep(lastActivityByTab, task["fire"].ids)
             /\ \A id \in DOMAIN lastActivityByTab' : id \in task["fire"].ids
        /\ (task["fire"].pc \in EarlyPcs /\ task'["fire"] # task["fire"]) =>
             /\ tabs' = tabs
             /\ suspendedRec' = suspendedRec
             /\ suspendedToday' = suspendedToday
             /\ backups' = backups
             /\ bookmarks' = bookmarks
        /\ (/\ task["fire"].pc = "f_settings" /\ ~task["fire"].res
            /\ task'["fire"] # task["fire"]) =>
             task'["fire"] = IdleTask]_vars

\* a firing has read the policy as disabled while an eligible tab that is
\* not unloaded has been inactive for the timeout
C27_Witness ==
  /\ task["fire"].pc = "f_settings" /\ ~task["fire"].res
  /\ lastAlarmRun = now
  /\ \E id \in OpenIds :
       /\ isTabEligibleForSuspend(tabs[id], FALSE)
       /\ ~tabs[id].discarded
       /\ isTabInactive(lastActivityByTab, id, task["fire"].timeout)

(************************ the throttle of the writes ***********************)
\* persistLastActivity issues its write in this step
PersistWrites == lastPersistTime' # lastPersistTime /\ lastPersistTime' = now

StoredShapes ==
  { NotAnObject }
    \cup { [id \in 1..2 |-> IF id = 2 THEN v ELSE StartTime - MinuteMs] :
             v \in {Text, NotANumber, 0} }
    \cup { [id \in {BadKey, 1, 2} |-> StartTime - MinuteMs] }

\* the stored map is replaced from outside the worker (a restored profile,
\* another version of the extension)
Corrupt ==
  /\ storedActivity \notin StoredShapes
  /\ \E raw \in StoredShapes : storedActivity' = raw
  /\ UNCHANGED << now, tabs, sw, lastActivityByTab, lastPersistTime, alarm, settings,
                  suspendedToday, suspendedRec, backups, closedAndSaved, lastAlarmRun,
                  bookmarks, task, initTask, lastSignal, memAtKill, survived,
                  lastWrite, pageVars >>

NextLoad ==
  \/ Corrupt
  \/ Teardown \/ Wake \/ Startup
  \/ FireStart \/ FireStepsSettled \/ FireSeedWritten
  \/ SuspendByDiscard("fire") \/ Backup("fire")

SpecLoad == InitSeed /\ [][NextLoad]_vars

\* getStoredState replaces the map in this step: the stored value raw was
\* read by initOnStartup or by the firing
Loads(raw) ==
  \/ initTask.pc = "load" /\ initTask'.pc = "query" /\ raw = initTask.raw
  \/ FireGoes("f_load", "f_prune") /\ raw = task["fire"].raw

\* the loop of the firing finds tab id inactive in this step and goes on to
\* suspend it
JudgedInactive(id) ==
  /\ task'["fire"] # task["fire"]
  /\ task'["fire"].pc = "get" /\ task'["fire"].cur = id

\* what a load does with the entries of a stored object
LoadCoerces(raw) ==
  /\ BadKey \notin DOMAIN lastActivityByTab'
  /\ \A id \in DOMAIN raw \ {BadKey} :
       /\ id \in DOMAIN lastActivityByTab'
       /\ lastActivityByTab'[id] = IF ValidTs(raw[id]) THEN raw[id] ELSE now

\* C29 as stated: a load turns every stored timestamp that is no positive
\* number into the current time and drops the entries whose key is no
\* number; a stored value that is no object gives the empty map; and a
\* firing finds inactive only a tab whose entry is older than the firing
\* (none that its load has set to the current time).
C29_LoadTolerant ==
  [][/\ \A raw \in StoredShapes \cup {storedActivity} :
          Loads(raw) =>
            IF raw = NotAnObject THEN lastActivityByTab' = EmptyMap
            ELSE LoadCoerces(raw)
     /\ \A id \in TabIds : JudgedInactive(id) => lastActivityByTab'[id] < lastAlarmRun]_vars

\* C29 amended: as above, but a stored value that is no object leaves the
\* map in memory as it is (empty when the worker has just started).
C29_LoadKeepsOrCoerces ==
  [][/\ \A raw \in StoredShapes \cup {storedActivity} :
          Loads(raw) =>
            IF raw = NotAnObject THEN lastActivityByTab' = lastActivityByTab
            ELSE LoadCoerces(raw)
     /\ \A id \in TabIds : JudgedInactive(id) => lastActivityByTab'[id] < lastAlarmRun]_vars

\* the firing has loaded a map in which the timestamp of tab 2 was no
\* positive number: the entry of tab 2 holds the current time
C29_Witness ==
  /\ task["fire"].pc = "f_prune"
  /\ storedActivity \in StoredShapes \ {NotAnObject}
  /\ ~ValidTs(storedActivity[2])
  /\ 2 \in DOMAIN lastActivityByTab /\ lastActivityByTab[2] = now
  /\ lastActivityByTab[1] < now

(***************************** the prune step ******************************)
\* pruneStaleTabIds has the tab list and deletes in this step
Prunes == FireGoes("f_prune", "f_prunew") \/ FireGoes("f_prune", "f_settings")

\* C30: the prune step of a firing leaves no entry of a closed tab in the
\* map, keeps the entry of every open tab as it was, and writes the stored
\* map exactly when it has removed an entry.
C30_PruneKeepsOpenTabs ==
  [][Prunes =>
       /\ \A id \in DOMAIN lastActivityByTab' : tabs[id].state = "open"
       /\ \A id \in DOMAIN lastActivityByTab :
            tabs[id].state = "open" =>
              /\ id \in DOMAIN lastActivityByTab'
              /\ lastActivityByTab'[id] = lastActivityByTab[id]
       /\ FireGoes("f_prune", "f_prunew") <=>
            DOMAIN lastActivityByTab' # DOMAIN lastActivityByTab
       /\ FireGoes("f_prune", "f_prunew") => storedActivity' = lastActivityByTab'
       /\ FireGoes("f_prune", "f_settings") => storedActivity' = storedActivity]_vars

(****************** suspended tabs and the day's bucket ********************)
\* the URL a suspended tab showed when it was suspended
SuspendedUrl(id) == IF OnOwnStub(id) THEN origUrl[id] ELSE tabs[id].url

\* C31: when a firing returns, the bucket of the day holds the URL of every
\* open tab that a firing has suspended, also of a tab suspended by a firing
\* that a teardown ended before its backup pass.
C31_SuspendedIsBackedUp ==
  [][FireReturns =>
       \A id \in TabIds :
         (tabs[id].state = "open" /\ IsSuspended(tabs[id])) =>
           SuspendedUrl(id) \in BucketUrls(backups'[DateOf(now)])]_vars

C33_BucketOnlyGrows ==
  [][\A d \in Dates : IsPrefix(backups[d], backups'[d])]_vars

(******************** the two restore implementations **********************)
\* the URL runRestoreAllSuspended resolves for tab id as it is now
RestoreAllTarget(id) ==
  RestoreTarget([IdleTask EXCEPT !.snap = QueryTabs, !.cur = id,
                                 !.itemUrl = getRestoreData(tabs[id].url.tabId)])

\* C34: for every open tab on a stub page, restore-all-suspended and the
\* stub page's own lookup resolve the same URL (or both none).
C34_RestoresAgree ==
  \A id \in TabIds :
    (ShowsStub(id) /\ isPlaceholderTabUrl(tabs[id].url)) =>
      RestoreAllTarget(id) = StubLookup(tabs[id].url)

(******************* progress of the scheduler under restarts **************)
\* The browser stops the worker while nothing is under way and an event
\* starts it again; alarms fire; none of the tabs is touched.
NextLive ==
  \/ (InFlight = 0 /\ Teardown) \/ Wake \/ Startup
  \/ FireStart \/ FireStepsSettled
  \/ SuspendByDiscard("fire") \/ Backup("fire")

\* the alarm keeps firing, every function that has started goes on, and the
\* browser keeps stopping the worker when it finds it idle
LiveFairness ==
  /\ SF_vars(InFlight = 0 /\ Teardown)
  /\ WF_vars(Wake) /\ WF_vars(Startup)
  /\ WF_vars(FireStart) /\ WF_vars(FireStepsSettled)
  /\ WF_vars(SuspendByDiscard("fire")) /\ WF_vars(Backup("fire"))

SpecLive == InitSeed /\ [][NextLive]_vars /\ LiveFairness

\* tab id is open, eligible, not suspended, and its last activity signal is
\* a timeout old, under an enabled policy
Due(id) ==
  /\ settings.enabled
  /\ tabs[id].state = "open"
  /\ isTabEligibleForSuspend(tabs[id], FALSE)
  /\ ~IsSuspended(tabs[id])
  /\ TimedOut(id, settings.timeoutMinutes)

\* C35: a tab that is due is eventually suspended, or a firing goes on to
\* suspend it, also when the worker is stopped and started between firings.
C35_DueIsSuspended ==
  \A id \in TabIds :
    Due(id) ~> \/ IsSuspended(tabs[id])
               \/ task["fire"].pc \in PerTabPcs /\ task["fire"].cur = id

(**************** web pages that look like a stub address ******************)
\* tab 1 shows a web page; tab 2 a web page or one whose address looks like
\* a stub address
InitLookalike ==
  /\ InitWith({WebA, LookalikeUrl}, MaxTabs - 1, 0)
  /\ tabs[1].url = WebA

\* the user switches tabs, suspends the current tab and restores all
NextLookalike ==
  \/ \E id \in TabIds : Activate(id)
  \/ (MayAsk /\ CurStart) \/ SuspendCurrent
  \/ (MayAsk /\ RestoreStart) \/ RestoreAll

SpecLookalike == InitLookalike /\ [][NextLookalike]_vars

\* the address of a stub page of the extension, under its current or an
\* earlier id
IsStubAddress(url) ==
  url # EmptyUrl /\ url.scheme = "chrome-extension" /\ url.path = "/suspended.html"

\* C36: restore-all-suspended issues a navigation, and removes a record,
\* only for a tab of its list that shows a stub page of the extension.
C36_RestoresOnlyStubs ==
  [][/\ (task["restore"].pc = "r_get" /\ task'["restore"].pc = "r_nav") =>
          IsStubAddress(task["restore"].snap[task["restore"].cur].url)
     /\ (task["restore"].pc = "r_nav" /\ task'["restore"].pc = "r_rm") =>
          IsStubAddress(task["restore"].snap[task["restore"].cur].url)]_vars

(***************** the record after a navigation that succeeded ************)
\* the suspend operation of task k removes the record of its tab in this step
SuspendRemovesRecord(k) ==
  /\ task'[k] # task[k]
  /\ task[k].pc \in PerTabPcs
  /\ task[k].cur \in DOMAIN suspendedRec
  /\ task[k].cur \notin DOMAIN suspendedRec'

\* C37: the suspend operation removes the record of its tab only after a
\* navigation that was rejected; after a navigation that succeeded it goes
\* on to return true, also when the update of the counter is rejected.
C37_RecordKeptAfterNavigation ==
  [][\A k \in Suspenders :
       /\ SuspendRemovesRecord(k) => (task[k].pc = "p_nav" /\ ~task[k].res)
       /\ task'[k].pc = "p_rollback" => task[k].pc \in {"p_nav", "p_rollback"}
       /\ (task[k].pc = "p_rollback" /\ task'[k] # task[k]) =>
            task[k].snap[task[k].cur].url = tabs[task[k].cur].url
              \/ tabs[task[k].cur].state # "open"]_vars

(*********************** what close-and-save closes *************************)
\* the user switches tabs and closes the last tab while close-and-save-all
\* requests run
NextCloseAll ==
  \/ \E id \in TabIds : Activate(id)
  \/ CloseTab(MaxTabs)
  \/ CloseAndSave

SpecCloseAll == InitClosed /\ [][NextCloseAll]_vars

\* runCloseAndSaveAll has awaited chrome.tabs.remove for the next id of its list
CloseAttempt ==
  /\ task["close"].pc \in {"s_set", "s_rm"}
  /\ task'["close"].i = task["close"].i + 1

\* the handler of closeAndSaveAll sends {closed: idsToClose.length}
CloseReplies ==
  /\ task["close"].pc \in {"s_set", "s_rm"}
  /\ task'["close"].pc = "idle" /\ sw' = "up"

\* C38: every chrome.tabs.remove of close-and-save-all closes a tab (so the
\* number of the reply is the number of tabs closed), the stored list holds
\* the URL of the tab when it is closed, and when the request completes the
\* stored list holds the URL of every tab of its list.
C38_ClosedTabsAreSaved ==
  [][/\ CloseAttempt =>
          LET id == task["close"].idsToClose[task["close"].i + 1]
          IN /\ tabs[id].state = "open" /\ tabs'[id].state = "closed"
             /\ tabs[id].url \in BucketUrls(closedAndSaved)
     /\ CloseReplies =>
          \A j \in 1..Len(task["close"].idsToClose) :
            task["close"].snap[task["close"].idsToClose[j]].url
              \in BucketUrls(closedAndSaved')]_vars

(************* activity signals while a firing is under way *****************)
\* a firing and a suspend-all-now request at the same time, while the user
\* pins and unpins the last tab
NextRace ==
  \/ TogglePinned(MaxTabs)
  \/ (MayStart /\ FireStart) \/ FireStepsSettled
  \/ (MayStart /\ AllStart) \/ AllSteps
  \/ SuspendByDiscard("fire") \/ SuspendByDiscard("all")
  \/ Backup("fire") \/ Backup("all")

SpecRace == InitCounter /\ [][NextRace]_vars

\* tab id of the firing's list is not as the list shows it: it was
\* activated, pinned or unpinned after the list was taken, which the
\* listeners record as activity
SignalledSinceSnapshot(id) ==
  /\ id \in DOMAIN task["fire"].snap
  /\ \/ tabs[id].pinned # task["fire"].snap[id].pinned
     \/ tabs[id].active # task["fire"].snap[id].active

\* C39: the loop of a firing does not go on to suspend a tab whose activity
\* was recorded after the firing took its list of tabs, also when a
\* suspend-all-now request reloads the activity map meanwhile.
C39_SignalBeatsFiring ==
  [][\A id \in TabIds :
       (task["fire"].pc \notin {"idle", "f_set", "f_alarm", "f_load", "f_prune",
                                "f_prunew", "f_settings"}
        /\ SignalledSinceSnapshot(id))
         => ~JudgedInactive(id)]_vars

(****************** records after a restart of the browser *****************)
\* placeholder mode; tab 1 is the active tab
InitRenumber ==
  /\ InitWith({WebA, WebB}, MaxTabs, MinuteMs)
  /\ tabs[1].url = WebA
  /\ settings.mode = "placeholder"

\* suspend-all-now requests, restarts of the browser while nothing is under
\* way, the start of the worker, and the user closing a background tab
NextRenumber ==
  \/ (MayAsk /\ AllStart) \/ AllSteps
  \/ SuspendByPlaceholder("all") \/ Backup("all")
  \/ (MayAsk /\ BrowserRestart) \/ Wake \/ Startup
  \/ \E id \in 2..MaxTabs : CloseTab(id)

SpecRenumber == InitRenumber /\ [][NextRenumber]_vars

\* tab p is open on a stub page of this installation that it was put on
OnAStub(p) ==
  /\ tabs[p].state = "open"
  /\ isSuspendedPlaceholderUrl(tabs[p].url)
  /\ p \in DOMAIN origUrl

\* the record found under the tabId parameter of the address of tab p
RecordFor(p) == getRestoreData(tabs[p].url.tabId)

\* C40: the record found under the tabId parameter of an open stub page is
\* absent or holds the URL that tab showed before; and a step in which
\* another tab is closed or suspended leaves the record of an open stub page
\* as it is.
C40_RecordBoundToStub ==
  /\ [](\A p \in TabIds :
          OnAStub(p) => RecordFor(p) \in {EmptyUrl, origUrl[p]})
  /\ [][\A p \in TabIds :
          (/\ OnAStub(p) /\ tabs'[p] = tabs[p]
           /\ RecordFor(p) = origUrl[p]
           /\ \/ \E q \in TabIds \ {p} : tabs[q].state = "open" /\ tabs'[q].state = "closed"
              \/ \E k \in Suspenders :
                   task'[k] # task[k] /\ task[k].pc \in PerTabPcs /\ task[k].cur # p)
            => tabs[p].url.tabId \in DOMAIN suspendedRec'
               /\ suspendedRec'[tabs[p].url.tabId] = suspendedRec[tabs[p].url.tabId]]_vars

====
